---- MODULE Spec2Model ----
(***************************************************************************)
(* Model of the SageMaker remote connection extension.                     *)
(*                                                                         *)
(* Part I   MonitorService: the polling monitor (setInterval sessions, the *)
(*          activeIntervals registry, stopMonitoring / stopAllMonitoring). *)
(* Part II  SSHConfigManager.fixSSHConfig / fixSSHConfigInternal: the      *)
(*          repair of the 'Host sagemaker' block of the SSH config.        *)
(* Part III fixArnConversionInternal / FixService.fixArnConversion /       *)
(*          FixService.fixPowerShellDebugOutput: the repair of the         *)
(*          connection script.                                             *)
(***************************************************************************)
EXTENDS Integers, Sequences, FiniteSets, TLC

(***************************************************************************)
(* Bounds of the model.                                                    *)
(***************************************************************************)
\* monitorRemoteServer calls made in one run of Spec
MaxSessions == 2
\* ticks of one session that may be awaiting probes at the same time
MaxInflight == 2
\* ticks one session starts in Spec (the many-session specification)
MaxTicks == 2
\* ticks beyond maxChecks the single session of SpecPoll may start
PollSlack == 2
\* concurrent callers of ExecUtils.execute
MaxCallers == 2
\* calls of ExecUtils.execute in one run of SpecExec
MaxExecCalls == 3
\* changes of the well-known ssh paths on disk in one run of SpecExec
MaxFsChanges == 1
\* remote calls (cleanup, diagnosis step 13, monitor tick) started in a run
MaxRemoteCalls == 4
\* changes of the local server and of the connection script during a quick start
MaxQsChanges == 2

(***************************************************************************)
(* Program constants.                                                      *)
(***************************************************************************)
maxChecks == 60

Hosts == {"sagemaker", "gpu"}
Sessions == 1..MaxSessions
NoSession == 0

(***************************************************************************)
(* Part I: state of MonitorService.                                        *)
(*                                                                         *)
(* A session is one call of monitorRemoteServer: its closure holds         *)
(* checkCount, isStopped and intervalId.                                   *)
(*   callPc[s]     position of the call: "idle" (not made), "await" (past  *)
(*                 the cancel-existing block, awaiting the initial status  *)
(*                 check), "done" (setInterval and activeIntervals.set     *)
(*                 executed, call returned)                                *)
(*   host[s]       sshHost of the call                                     *)
(*   interval[s]   the timer: "none" (setInterval not yet called), "live", *)
(*                 "cancelled" (cleared by a stop or by a replacing call), *)
(*                 "ended" (cleared by the session's own terminal branch)  *)
(*   ticks[s]      the ticks of the session that are awaiting a probe, in  *)
(*                 the order they started: [pc, res], pc the probe awaited *)
(*   activeIntervals  the registry: host -> session whose intervalId is    *)
(*                 stored under monitor-<host>, NoSession when no entry    *)
(*   nSucceeded[s], nTimedOut[s]  banners the session has emitted          *)
(*   stopped[s]    a stop for host[s] returned while the timer was live    *)
(*   stopDuringStart[s]  a stop for host[s] returned while the call was    *)
(*                 awaiting its initial status check                       *)
(*   sawFailure[s] a tick of the session met a failed probe or an          *)
(*                 exception                                               *)
(***************************************************************************)
VARIABLES callPc, host, interval, checkCount, isStopped, ticks,
          activeIntervals, nSucceeded, nTimedOut, stopped, stopDuringStart,
          sawFailure

monVars == <<callPc, host, interval, checkCount, isStopped, ticks,
             activeIntervals, nSucceeded, nTimedOut, stopped, stopDuringStart,
             sawFailure>>

(***************************************************************************)
(* State of the config repair.                                             *)
(*   cfgExists, cfgFile   the file ~/.ssh/config                           *)
(*   cfgBackups   contents of the config.backup.<time> files, in order     *)
(*   cfgOp        the last operation run ("none" before the first)         *)
(*   cfgReport    what it reported: "nofile", "nohost" (no 'Host           *)
(*                sagemaker'), "fixed", "good", "present", "added"         *)
(*   cfgWrote     whether it wrote the file                                *)
(*   cfgRuns      operations run so far                                    *)
(***************************************************************************)
VARIABLES cfgExists, cfgFile, cfgBackups, cfgOp, cfgReport, cfgWrote, cfgRuns

cfgVars == <<cfgExists, cfgFile, cfgBackups, cfgOp, cfgReport, cfgWrote, cfgRuns>>

(***************************************************************************)
(* State of the script repair.                                             *)
(*   scrExists, scrFile   the file sagemaker_connect.ps1                   *)
(*   scrBackups   contents of the sagemaker_connect.ps1.backup.<time>      *)
(*                files, in order                                          *)
(*   scrOp        the last operation run ("none" before the first)         *)
(*   scrReport    what it reported: "nofile", "applied" (all fixes already *)
(*                applied), "updated", "nothing" (nothing written),        *)
(*                "nobackup", "skipped"                                    *)
(*   scrWrote     whether it wrote the file                                *)
(*   scrRuns      operations run so far                                    *)
(*   scrLog       the changes the last operation logged as made: "arnPattern"*)
(*                (Fixed ARN parsing), "arn" (Added ARN conversion logic), *)
(*                "removedOld", "removedLines", "retry" (Added retry       *)
(*                logic), "debug" (Added debug output suppression),        *)
(*                "restored"; and "warn" for a "Could not" warning         *)
(***************************************************************************)
VARIABLES scrExists, scrFile, scrBackups, scrOp, scrReport, scrWrote, scrRuns,
          scrLog

scrVars ==
  <<scrExists, scrFile, scrBackups, scrOp, scrReport, scrWrote, scrRuns,
    scrLog>>

(***************************************************************************)
(* State of checkPrerequisites.                                            *)
(*   preEnv     what the checks find: awsCli ("aws --version" exits with   *)
(*              0), pluginFile (session-manager-plugin.exe is at its       *)
(*              install path), pluginCmd ("session-manager-plugin          *)
(*              --version" exits with 0), remoteSSH and awsToolkit (the    *)
(*              extension is installed), configFile ("absent", "readable", *)
(*              "unreadable": it exists and readFileSync throws) and       *)
(*              configText, the text of ~/.ssh/config                      *)
(*   prePc      position of the call: "idle" (no call), "awsCli" (awaiting *)
(*              aws --version),                                            *)
(*              "plugin" (at the plugin check), "rest" (past it),          *)
(*              "returned", "threw"                                        *)
(*   preReport  the local variables of the call, and at "returned" the     *)
(*              object returned                                            *)
(***************************************************************************)
VARIABLES preEnv, prePc, preReport

preVars == <<preEnv, prePc, preReport>>

(***************************************************************************)
(* State of ExecUtils.findSSHPath and ExecUtils.execute.                   *)
(*   sshPathCache  the static field: "null" or the cached path             *)
(*   fsPaths       the well-known install paths that exist on disk         *)
(*   whereOut      what "cmd /c where ssh 2>&1" gives: "error" (an error   *)
(*                 and no output), "notfound" (the INFO: Could not find    *)
(*                 text), "one" (one path), "many" (several paths, one on  *)
(*                 each line, the lines ending in CR LF)                   *)
(*   exPc[c]       position of caller c in execute: "idle", "where"        *)
(*                 (findSSHPath awaiting where), "run" (awaiting           *)
(*                 execAsync of the command), "rerun" (awaiting execAsync  *)
(*                 of the original ssh command in the catch), "returned",  *)
(*                 "threw"                                                 *)
(*   exKind[c]     "ssh" (the command starts with "ssh " on win32) or      *)
(*                 "other"                                                 *)
(*   exPath[c]     what findSSHPath returned to the call ("null" before)   *)
(*   exFirst       the first value findSSHPath resolved ("null" before)    *)
(*   exCalls, fsChanges  calls of execute made, changes of the disk so far *)
(***************************************************************************)
VARIABLES sshPathCache, fsPaths, whereOut, exPc, exKind, exPath, exFirst,
          exCalls, fsChanges

exeVars == <<sshPathCache, fsPaths, whereOut, exPc, exKind, exPath, exFirst,
             exCalls, fsChanges>>

(***************************************************************************)
(* State of the remote probes: ExecUtils.checkRemoteServerInstallation and *)
(* its callers CleanupService.cleanupRemoteServer, step 13 of              *)
(* DiagnosticsService.diagnoseConnection and the monitor's tick.           *)
(*   rmHost      the remote side: reach is "ok" (ssh connects and the      *)
(*               remote command exits), "refused" (ssh exits non-zero:     *)
(*               connection refused, ConnectTimeout expired, no route) or  *)
(*               "hang" (ssh connects, the remote command never exits);    *)
(*               cursorDir, vscodeDir, proc tell what is on the host       *)
(*               and pipefail whether the login shell has that option on   *)
(*   rmPc[k]     position of caller k: "idle", "probe" (awaiting           *)
(*               execAsync(checkDirsCommand)), "confirm" (cleanup awaiting *)
(*               the modal dialog), "rm" (cleanup awaiting the rm          *)
(*               command), "detail" (tick awaiting the detail command),    *)
(*               "done"                                                    *)
(*   rmCheck[k]  what checkRemoteServerInstallation returned to k          *)
(*   rmOut[k]    what k wrote to its output channel about the host         *)
(*   rmCalls     calls started so far                                      *)
(***************************************************************************)
VARIABLES rmHost, rmPc, rmCheck, rmOut, rmCalls

rmVars == <<rmHost, rmPc, rmCheck, rmOut, rmCalls>>

(***************************************************************************)
(* State of QuickStartService.quickStart.                                  *)
(*   qsChecks   what PrerequisitesChecker.checkAll and                     *)
(*              checkRemoteSSHExtension report: awsCli,                    *)
(*              sessionManagerPlugin, awsToolkit, sshConfig, remoteSSH     *)
(*   qsServer   the local server is running and accessible                 *)
(*   qsScript   the connection script exists on disk                       *)
(*   qsPc       position of the run: "idle", the await it is at            *)
(*              ("install", "toolkitPrompt", "arnPrompt", "setup",         *)
(*              "fixes", "repair1", "status9", "starting", "recheck",      *)
(*              "status10", "repair2", "step12"), "guidance" (the Next     *)
(*              Steps text is written) or "halted" (returned before it)    *)
(*   qsHalt     why the run returned early ("none" otherwise)              *)
(*   qsTrace    the steps the run has made, in their order                 *)
(*   qsLog      the failures the run has logged                            *)
(*   qsKnown    step 11 saw the connection script on disk before it        *)
(*              called the repair                                          *)
(*   qsChanges  changes of qsServer and qsScript so far                    *)
(***************************************************************************)
VARIABLES qsChecks, qsServer, qsScript, qsPc, qsHalt, qsTrace, qsLog,
          qsKnown, qsChanges

qsVars == <<qsChecks, qsServer, qsScript, qsPc, qsHalt, qsTrace, qsLog,
            qsKnown, qsChanges>>

(***************************************************************************)
(* State of ServerManager.checkServerStatus.                               *)
(*   stEnv     what the call meets: file, the descriptor                   *)
(*             sagemaker-local-server-info.json ("absent", "garbage": it   *)
(*             cannot be read or parsed, "null": it parses to null,        *)
(*             "empty": an object with neither pid nor port, "noPid",      *)
(*             "noPort", "full"); tasklist, what the tasklist command      *)
(*             gives ("row": a table with the pid, "info": the INFO: No    *)
(*             tasks text, "reject": the command fails); netconn, what     *)
(*             Test-NetConnection gives ("True", "False", "reject")        *)
(*   stPc      position of the call: "idle", "pid" (awaiting               *)
(*             isProcessRunning), "port" (awaiting isPortAccessible),      *)
(*             "returned", "threw"                                         *)
(*   stStatus  the locals processRunning and serverAccessible, and at      *)
(*             "returned" the fields running, accessible and error of the  *)
(*             object returned ("undefined" for a field not set)           *)
(***************************************************************************)
VARIABLES stEnv, stPc, stStatus

stVars == <<stEnv, stPc, stStatus>>

\* What the actions of one part leave unchanged: the state of the others.
notMon == <<cfgVars, scrVars, preVars, exeVars, rmVars, qsVars, stVars>>
notCfg == <<monVars, scrVars, preVars, exeVars, rmVars, qsVars, stVars>>
notScr == <<monVars, cfgVars, preVars, exeVars, rmVars, qsVars, stVars>>
notPre == <<monVars, cfgVars, scrVars, exeVars, rmVars, qsVars, stVars>>
notExe == <<monVars, cfgVars, scrVars, preVars, rmVars, qsVars, stVars>>
notRm == <<monVars, cfgVars, scrVars, preVars, exeVars, qsVars, stVars>>
notQs == <<monVars, cfgVars, scrVars, preVars, exeVars, rmVars, stVars>>
notSt == <<monVars, cfgVars, scrVars, preVars, exeVars, rmVars, qsVars>>

Tick(pc, res) == [pc |-> pc, res |-> res]

RemoveAt(seq, i) == SubSeq(seq, 1, i - 1) \o SubSeq(seq, i + 1, Len(seq))

MonInit ==
  /\ callPc = [s \in Sessions |-> "idle"]
  /\ host = [s \in Sessions |-> "sagemaker"]
  /\ interval = [s \in Sessions |-> "none"]
  /\ checkCount = [s \in Sessions |-> 0]
  /\ isStopped = [s \in Sessions |-> FALSE]
  /\ ticks = [s \in Sessions |-> <<>>]
  /\ activeIntervals = [h \in Hosts |-> NoSession]
  /\ nSucceeded = [s \in Sessions |-> 0]
  /\ nTimedOut = [s \in Sessions |-> 0]
  /\ stopped = [s \in Sessions |-> FALSE]
  /\ stopDuringStart = [s \in Sessions |-> FALSE]
  /\ sawFailure = [s \in Sessions |-> FALSE]

\* clearInterval(id): a live timer stops firing; any other timer is unchanged.
clearInterval(iv, s) ==
  IF s # NoSession /\ iv[s] = "live" THEN [iv EXCEPT ![s] = "cancelled"] ELSE iv

\* monitorRemoteServer, lines 131-142: cancel the registered session of the
\* host, then go on to the awaited initial status check.
CancelExisting(h) ==
  IF activeIntervals[h] # NoSession
  THEN /\ interval' = clearInterval(interval, activeIntervals[h])
       /\ activeIntervals' = [activeIntervals EXCEPT ![h] = NoSession]
  ELSE UNCHANGED <<interval, activeIntervals>>

StartMonitor(s, h) ==
  /\ callPc[s] = "idle"
  /\ \A r \in Sessions : r < s => callPc[r] # "idle"
  /\ CancelExisting(h)
  /\ callPc' = [callPc EXCEPT ![s] = "await"]
  /\ host' = [host EXCEPT ![s] = h]
  /\ UNCHANGED <<checkCount, isStopped, ticks, nSucceeded, nTimedOut,
                 stopped, stopDuringStart, sawFailure,
                 notMon>>

\* monitorRemoteServer, lines 300-477: the initial status check has resolved
\* (or thrown into its catch); the timer is created and stored in the registry.
RegisterInterval(s) ==
  /\ interval' = [interval EXCEPT ![s] = "live"]
  /\ activeIntervals' = [activeIntervals EXCEPT ![host[s]] = s]

InitialCheckDone(s) ==
  /\ callPc[s] = "await"
  /\ RegisterInterval(s)
  /\ callPc' = [callPc EXCEPT ![s] = "done"]
  /\ UNCHANGED <<host, checkCount, isStopped, ticks, nSucceeded, nTimedOut,
                 stopped, stopDuringStart, sawFailure,
                 notMon>>

\* The timer fires (lines 304-316): the callback returns at once when isStopped,
\* else counts the check and awaits the local server status. Nothing in the
\* callback looks at a tick still in flight.
TickMayStart(s) == interval[s] = "live"

TickStart(s, cap) ==
  /\ TickMayStart(s)
  /\ ~isStopped[s]
  /\ Len(ticks[s]) < MaxInflight
  /\ checkCount[s] < cap
  /\ checkCount' = [checkCount EXCEPT ![s] = @ + 1]
  /\ ticks' = [ticks EXCEPT ![s] = Append(@, Tick("local", "none"))]
  /\ UNCHANGED <<callPc, host, interval, isStopped, activeIntervals,
                 nSucceeded, nTimedOut, stopped, stopDuringStart, sawFailure,
                 notMon>>

\* The terminal branches (lines 423-427 and 441-445): isStopped = true,
\* clearInterval(intervalId), activeIntervals.delete(intervalKey).
EndSession(s) ==
  /\ isStopped' = [isStopped EXCEPT ![s] = TRUE]
  /\ interval' = [interval EXCEPT ![s] = IF @ = "live" THEN "ended" ELSE @]
  /\ activeIntervals' = [activeIntervals EXCEPT ![host[s]] = NoSession]

\* Mutant of TickCatch: an exception in a tick stops the polling.
TickCatchStops(s, i) ==
  /\ ticks' = [ticks EXCEPT ![s] = RemoveAt(@, i)]
  /\ sawFailure' = [sawFailure EXCEPT ![s] = TRUE]
  /\ EndSession(s)
  /\ UNCHANGED <<callPc, host, checkCount, nSucceeded, nTimedOut, stopped,
                 stopDuringStart,
                 notMon>>

\* The catch of the tick (lines 461-473): the error is logged, nothing else.
TickCatch(s, i) ==
  /\ ticks' = [ticks EXCEPT ![s] = RemoveAt(@, i)]
  /\ sawFailure' = [sawFailure EXCEPT ![s] = TRUE]
  /\ UNCHANGED <<callPc, host, interval, checkCount, isStopped,
                 activeIntervals, nSucceeded, nTimedOut, stopped,
                 stopDuringStart,
                 notMon>>

\* ServerManager.checkServerStatus resolves (line 316); the tick goes on to
\* await ExecUtils.checkRemoteServerInstallation (line 328).
LocalProbeDone(s, i) ==
  /\ i \in 1..Len(ticks[s])
  /\ ticks[s][i].pc = "local"
  /\ ticks' = [ticks EXCEPT ![s][i] = Tick("remote", "none")]
  /\ UNCHANGED <<callPc, host, interval, checkCount, isStopped,
                 activeIntervals, nSucceeded, nTimedOut, stopped,
                 stopDuringStart, sawFailure,
                 notMon>>

\* An awaited probe of the tick body rejects: control goes to the catch.
ProbeThrows(s, i) ==
  /\ i \in 1..Len(ticks[s])
  /\ ticks[s][i].pc \in {"local", "remote"}
  /\ TickCatch(s, i)

\* ExecUtils.checkRemoteServerInstallation resolves (ExecUtils.ts 202-318):
\* "running" when the output holds SERVER_PROCESS_RUNNING, "absent" when the
\* command ran and it does not, "failed" when the SSH command failed (the catch
\* returns serverProcessRunning = false). The tick goes on to await the detail
\* command (line 362).
RemoteOutcomes == {"running", "absent", "failed"}

RemoteProbeDone(s, i, res) ==
  /\ i \in 1..Len(ticks[s])
  /\ ticks[s][i].pc = "remote"
  /\ ticks' = [ticks EXCEPT ![s][i] = Tick("detail", res)]
  /\ UNCHANGED <<callPc, host, interval, checkCount, isStopped,
                 activeIntervals, nSucceeded, nTimedOut, stopped,
                 stopDuringStart, sawFailure,
                 notMon>>

\* Mutant of Verdict: the timeout is tested before the success.
VerdictTimeoutFirst(res, count) ==
  IF count >= maxChecks THEN "TimedOut"
  ELSE IF res = "running" THEN "Succeeded"
  ELSE "continue"

\* Lines 422-459: which terminal branch a finishing tick takes.
Verdict(res, count) ==
  IF res = "running" THEN "Succeeded"
  ELSE IF count >= maxChecks THEN "TimedOut"
  ELSE "continue"

\* The detail command resolves or throws into its own catch (lines 359-418);
\* the tick then runs lines 420-459 without a further await.
TickFinish(s, i) ==
  /\ i \in 1..Len(ticks[s])
  /\ ticks[s][i].pc = "detail"
  /\ ticks' = [ticks EXCEPT ![s] = RemoveAt(@, i)]
  /\ LET v == Verdict(ticks[s][i].res, checkCount[s]) IN
       /\ IF v = "continue"
          THEN UNCHANGED <<isStopped, interval, activeIntervals>>
          ELSE EndSession(s)
       /\ nSucceeded' = [nSucceeded EXCEPT ![s] = IF v = "Succeeded" THEN @ + 1 ELSE @]
       /\ nTimedOut' = [nTimedOut EXCEPT ![s] = IF v = "TimedOut" THEN @ + 1 ELSE @]
  /\ sawFailure' = [sawFailure EXCEPT ![s] = @ \/ ticks[s][i].res = "failed"]
  /\ UNCHANGED <<callPc, host, checkCount, stopped, stopDuringStart,
                 notMon>>

\* What a stop for the hosts in hs records about the sessions it meets.
StopGhosts(hs) ==
  /\ stopped' = [s \in Sessions |->
        stopped[s] \/ (host[s] \in hs /\ interval[s] = "live")]
  /\ stopDuringStart' = [s \in Sessions |->
        stopDuringStart[s] \/ (host[s] \in hs /\ callPc[s] = "await")]

\* Mutant of StopMonitoring: the stop of one host clears every timer.
StopMonitoringEveryHost(h) ==
  /\ \E s \in Sessions : callPc[s] # "idle"
  /\ interval' = [s \in Sessions |->
        IF \E g \in Hosts : activeIntervals[g] = s
        THEN clearInterval(interval, s)[s] ELSE interval[s]]
  /\ activeIntervals' = [g \in Hosts |-> NoSession]
  /\ StopGhosts({h})
  /\ UNCHANGED <<callPc, host, checkCount, isStopped, ticks, nSucceeded,
                 nTimedOut, sawFailure,
                 notMon>>

\* stopMonitoring(sshHost), lines 487-493.
StopMonitoring(h) ==
  /\ \E s \in Sessions : callPc[s] # "idle"
  /\ CancelExisting(h)
  /\ StopGhosts({h})
  /\ UNCHANGED <<callPc, host, checkCount, isStopped, ticks, nSucceeded,
                 nTimedOut, sawFailure,
                 notMon>>

\* stopAllMonitoring(), lines 498-503; deactivate() (extension.ts 144-147)
\* calls it.
ClearAll ==
  /\ interval' = [s \in Sessions |->
        IF \E h \in Hosts : activeIntervals[h] = s
        THEN clearInterval(interval, s)[s] ELSE interval[s]]
  /\ activeIntervals' = [h \in Hosts |-> NoSession]

StopAllMonitoring ==
  /\ \E s \in Sessions : callPc[s] # "idle"
  /\ ClearAll
  /\ StopGhosts(Hosts)
  /\ UNCHANGED <<callPc, host, checkCount, isStopped, ticks, nSucceeded,
                 nTimedOut, sawFailure,
                 notMon>>

(***************************************************************************)
(* Part II: the SSH config and its repair.                                 *)
(*                                                                         *)
(* The config file is a sequence of tokens: the words of each line, in     *)
(* order, and NL at the end of each line (the last line of a file may lack *)
(* it). Words of one line are separated by one space; the leading white    *)
(* space of a line is not represented.                                     *)
(* ENV_OPEN and ENV_CLOSE are the two pieces of text that the repair (and  *)
(* setupSSHConfig) put around the proxy command:                           *)
(*   ENV_OPEN   powershell.exe -NoProfile -Command                         *)
(*              "$env:SAGEMAKER_LOCAL_SERVER_FILE_PATH='<serverInfoPath>'; *)
(*              & '                                                        *)
(*   ENV_CLOSE  ' %h"                                                      *)
(* The regular expressions of the code are evaluated on the tokens by what *)
(* they match in the text the tokens stand for.                            *)
(***************************************************************************)
\* lines of a config document drawn by CfgInit
MaxCfgLines == 4
\* repair / setup operations in one run of SpecConfig
MaxCfgRuns == 2

NL == "\n"
\* stands between two words that no white space separates: what the text
\* is after a piece was appended to a last line that had no line end
JOINED == "<joined>"
ENV_OPEN == "powershell.exe -NoProfile -Command \"$env:SAGEMAKER_LOCAL_SERVER_FILE_PATH='<serverInfoPath>'; & '"
ENV_CLOSE == "' %h\""
SCRIPT_CODE == "C:\\Code\\User\\globalStorage\\sagemaker_connect.ps1"
SCRIPT_CURSOR == "C:\\Cursor\\User\\globalStorage\\sagemaker_connect.ps1"

\* The lines a document is drawn from.
CfgLines ==
  { <<"Host", "sagemaker">>,
    <<"Host", "sagemaker-dev">>,
    <<"Host", "gpu">>,
    <<"HostName", "<hostname>">>,
    <<"StrictHostKeyChecking", "accept-new">>,
    <<"ServerAliveInterval", "60">>,
    <<"ProxyCommand", "connect.ps1", "%n">>,
    <<"ProxyCommand", SCRIPT_CODE, "%h">>,
    <<"ProxyCommand", ENV_OPEN, SCRIPT_CURSOR, ENV_CLOSE>> }

\* The words that contain a given text (String.prototype.includes).
PctN == {"%n"}
PctH == {"%h", ENV_CLOSE}
CodeUser == {SCRIPT_CODE}
EnvVar == {ENV_OPEN}
ServerAlive == {"ServerAliveInterval"}
StrictHost == {"StrictHostKeyChecking"}
ProxyCommand == {"ProxyCommand"}
\* the words with white space inside (which \S+ cannot match whole)
SpacedWords == {ENV_OPEN, ENV_CLOSE}

\* "Host sagemaker" as a substring: the word Host, one space, a word that
\* begins with sagemaker. The block regex is case-insensitive (flag i); the
\* words of CfgLines differ in no letter case, so both tests agree on them.
HostSagemakerAt(t, p) ==
  /\ p + 1 <= Len(t)
  /\ t[p] = "Host"
  /\ t[p + 1] \in {"sagemaker", "sagemaker-dev"}

\* configContent.includes("Host sagemaker")
IncludesHostSagemaker(t) == \E p \in 1..Len(t) : HostSagemakerAt(t, p)

MinOf(S) == CHOOSE i \in S : \A j \in S : i <= j

\* /Host sagemaker[\s\S]*?(?=Host |$)/i : the first "Host sagemaker", lazily up
\* to the next "Host " (the word Host followed by a space) or the end of text.
BlockStart(t) == MinOf({p \in 1..Len(t) : HostSagemakerAt(t, p)})

BlockEnd(t) ==
  LET p == BlockStart(t)
      stops == {q \in (p + 2)..Len(t) :
                  t[q] = "Host" /\ q + 1 <= Len(t) /\ t[q + 1] # NL}
  IN IF stops = {} THEN Len(t) ELSE MinOf(stops) - 1

HostSection(t) == SubSeq(t, BlockStart(t), BlockEnd(t))

Includes(sec, W) == \E i \in 1..Len(sec) : sec[i] \in W

\* Mutant of ReplacePctN: replace without the flag g, the first %n only.
ReplaceFirstPctN(sec) ==
  [i \in 1..Len(sec) |->
     IF sec[i] = "%n" /\ (\A j \in 1..(i - 1) : sec[j] # "%n") THEN "%h"
     ELSE sec[i]]

\* fixedSection.replace(/%n/g, "%h")
ReplacePctN(sec) == [i \in 1..Len(sec) |-> IF sec[i] = "%n" THEN "%h" ELSE sec[i]]

\* replace(/Code\\User/g, "Cursor\\User") and replace(/Code\/User/g, ...)
ReplaceCodeUser(sec) ==
  [i \in 1..Len(sec) |-> IF sec[i] = SCRIPT_CODE THEN SCRIPT_CURSOR ELSE sec[i]]

\* index of the first token after position r that is not NL, 0 when none
NextWord(sec, r) ==
  LET S == {g \in (r + 1)..Len(sec) : sec[g] # NL}
  IN IF S = {} THEN 0 ELSE MinOf(S)

\* index of the last token of the line that holds position g
LineEnd(sec, g) ==
  LET S == {e \in g..Len(sec) : sec[e] = NL}
  IN IF S = {} THEN Len(sec) ELSE MinOf(S) - 1

\* replace(/(ProxyCommand\s+)(.+)/, `$1powershell.exe ... & '$2' %h"`): the
\* first ProxyCommand that white space and a non-empty rest of line follow.
\* Without such a match the text is returned as it is.
InjectEnv(sec) ==
  LET R == {r \in 1..Len(sec) : sec[r] \in ProxyCommand /\ NextWord(sec, r) # 0}
  IN IF R = {} THEN sec
     ELSE LET g == NextWord(sec, MinOf(R))
              e == LineEnd(sec, g)
          IN SubSeq(sec, 1, g - 1) \o <<ENV_OPEN>> \o SubSeq(sec, g, e)
               \o <<ENV_CLOSE>> \o SubSeq(sec, e + 1, Len(sec))

KeepAlive ==
  <<"ServerAliveInterval", "60", NL, "ServerAliveCountMax", "3", NL,
    "ConnectTimeout", "30", NL>>

\* replace(/(StrictHostKeyChecking\s+\S+\s*\n)/, `$1    ServerAlive...`): the
\* first StrictHostKeyChecking followed by white space, one word and the end
\* of its line.
AfterStrictHost(sec) ==
  LET U == {u \in 1..Len(sec) :
              /\ sec[u] \in StrictHost
              /\ NextWord(sec, u) # 0
              /\ sec[NextWord(sec, u)] \notin SpacedWords
              /\ NextWord(sec, u) + 1 <= Len(sec)
              /\ sec[NextWord(sec, u) + 1] = NL}
  IN IF U = {} THEN sec
     ELSE LET n == NextWord(sec, MinOf(U)) + 1
          IN SubSeq(sec, 1, n) \o KeepAlive \o SubSeq(sec, n + 1, Len(sec))

\* replace(/(ProxyCommand\s+)/, `    ServerAlive...$1`): before the first
\* ProxyCommand that white space follows.
BeforeProxy(sec) ==
  LET R == {r \in 1..Len(sec) : sec[r] \in ProxyCommand /\ r + 1 <= Len(sec)}
  IN IF R = {} THEN sec
     ELSE SubSeq(sec, 1, MinOf(R) - 1) \o KeepAlive
            \o SubSeq(sec, MinOf(R), Len(sec))

\* The steps of fixSSHConfig (SSHConfigManager.ts 333-390) on the section:
\* each test reads hostSection, each replacement acts on fixedSection.
Fix1(hs, fs) ==
  IF Includes(hs, PctN) /\ ~Includes(hs, PctH) THEN ReplacePctN(fs) ELSE fs
Need1(hs) == Includes(hs, PctN) /\ ~Includes(hs, PctH)

Fix1b(hs, fs) == IF Includes(hs, CodeUser) THEN ReplaceCodeUser(fs) ELSE fs
Need1b(hs) == Includes(hs, CodeUser)

Fix2(hs, fs) == IF ~Includes(hs, EnvVar) THEN InjectEnv(fs) ELSE fs
Need2(hs) == ~Includes(hs, EnvVar)

Fix3(hs, fs) ==
  IF ~Includes(hs, ServerAlive)
  THEN IF Includes(fs, StrictHost) THEN AfterStrictHost(fs) ELSE BeforeProxy(fs)
  ELSE fs
Need3(hs) == ~Includes(hs, ServerAlive)

\* fixSSHConfig: [needsFix, fixedSection] for a host section.
FixSectionFull(hs) ==
  [needsFix |-> Need1(hs) \/ Need1b(hs) \/ Need2(hs) \/ Need3(hs),
   fixed |-> Fix3(hs, Fix2(hs, Fix1b(hs, Fix1(hs, hs))))]

\* fixSSHConfigInternal (QuickStartService.ts 1029-1045): fixes 1 and 2 only.
FixSectionInternal(hs) ==
  [needsFix |-> Need1(hs) \/ Need2(hs),
   fixed |-> Fix2(hs, Fix1(hs, hs))]

\* configContent.replace(/Host sagemaker[\s\S]*?(?=Host |$)/i, fixedSection)
ReplaceSection(t, fixed) ==
  SubSeq(t, 1, BlockStart(t) - 1) \o fixed \o SubSeq(t, BlockEnd(t) + 1, Len(t))

RECURSIVE Flatten(_)
Flatten(ls) ==
  IF ls = <<>> THEN <<>> ELSE Head(ls) \o <<NL>> \o Flatten(Tail(ls))

RECURSIVE SeqsUpTo(_, _)
SeqsUpTo(S, n) ==
  IF n = 0 THEN {<<>>}
  ELSE LET shorter == SeqsUpTo(S, n - 1)
       IN shorter \cup {Append(q, x) : q \in shorter, x \in S}

CfgDocs == {Flatten(ls) : ls \in SeqsUpTo(CfgLines, MaxCfgLines)}

\* the document t without the line end of its last line
Unterminated(t) == SubSeq(t, 1, Len(t) - 1)

\* the files the user may have: every line ended, or the last one not
CfgFiles == CfgDocs \cup {Unterminated(t) : t \in CfgDocs \ {<<>>}}

\* A fixed, well-formed config: the state of the file in the specifications
\* that do not run the config repair.
CfgQuiet ==
  /\ cfgExists = TRUE
  /\ cfgFile = Flatten(<< <<"Host", "sagemaker">>,
                          <<"ProxyCommand", ENV_OPEN, SCRIPT_CURSOR, ENV_CLOSE>> >>)
  /\ cfgBackups = <<>>
  /\ cfgOp = "none" /\ cfgReport = "none" /\ cfgWrote = FALSE /\ cfgRuns = 0

CfgInit ==
  /\ cfgExists \in BOOLEAN
  /\ cfgFile \in CfgFiles
  /\ (~cfgExists => cfgFile = <<>>)
  /\ cfgBackups = <<>>
  /\ cfgOp = "none" /\ cfgReport = "none" /\ cfgWrote = FALSE /\ cfgRuns = 0

\* The body shared by fixSSHConfig (SSHConfigManager.ts 301-410) and
\* fixSSHConfigInternal (QuickStartService.ts 1007-1058); full tells the one
\* from the other.
RunConfigFix(full) ==
  /\ cfgRuns < MaxCfgRuns
  /\ cfgRuns' = cfgRuns + 1
  /\ UNCHANGED <<cfgExists, notCfg>>
  /\ IF ~cfgExists
     THEN cfgReport' = "nofile" /\ cfgWrote' = FALSE /\ UNCHANGED <<cfgFile, cfgBackups>>
     ELSE IF ~IncludesHostSagemaker(cfgFile)
     THEN cfgReport' = "nohost" /\ cfgWrote' = FALSE /\ UNCHANGED <<cfgFile, cfgBackups>>
     ELSE LET r == IF full THEN FixSectionFull(HostSection(cfgFile))
                            ELSE FixSectionInternal(HostSection(cfgFile)) IN
          IF r.needsFix
          THEN /\ cfgBackups' = Append(cfgBackups, cfgFile)
               /\ cfgFile' = ReplaceSection(cfgFile, r.fixed)
               /\ cfgWrote' = TRUE
               /\ cfgReport' = "fixed"
          ELSE /\ cfgReport' = "good" /\ cfgWrote' = FALSE
               /\ UNCHANGED <<cfgFile, cfgBackups>>

FixSSHConfig ==
  /\ cfgOp' = "fixSSHConfig"
  /\ RunConfigFix(TRUE)

FixSSHConfigInternal ==
  /\ cfgOp' = "fixSSHConfigInternal"
  /\ RunConfigFix(FALSE)

\* configContent += sshEntry (SSHConfigManager.ts 64): the entry follows the
\* last character of the text, whatever it is
AppendEntry(t, entry) ==
  IF t # <<>> /\ t[Len(t)] # NL THEN t \o <<JOINED>> \o entry ELSE t \o entry

\* setupSSHConfig (SSHConfigManager.ts 22-66): append the sagemaker entry
\* unless the text already includes "Host sagemaker".
SetupEntry ==
  Flatten(<< <<"Host", "sagemaker">>,
             <<"HostName", "<hostname>">>,
             <<"User", "sagemaker-user">>,
             <<"ForwardAgent", "yes">>,
             <<"AddKeysToAgent", "yes">>,
             <<"StrictHostKeyChecking", "accept-new">>,
             <<"ServerAliveInterval", "60">>,
             <<"ServerAliveCountMax", "3">>,
             <<"ConnectTimeout", "30">>,
             <<"ProxyCommand", ENV_OPEN, SCRIPT_CURSOR, ENV_CLOSE>> >>)

SetupSSHConfig ==
  /\ cfgRuns < MaxCfgRuns
  /\ cfgRuns' = cfgRuns + 1
  /\ cfgOp' = "setupSSHConfig"
  /\ UNCHANGED <<cfgBackups, notCfg>>
  /\ IF cfgExists /\ IncludesHostSagemaker(cfgFile)
     THEN cfgReport' = "present" /\ cfgWrote' = FALSE /\ UNCHANGED <<cfgExists, cfgFile>>
     ELSE /\ cfgFile' = AppendEntry(IF cfgExists THEN cfgFile ELSE <<>>, SetupEntry)
          /\ cfgExists' = TRUE
          /\ cfgWrote' = TRUE
          /\ cfgReport' = "added"

CfgNext ==
  \/ FixSSHConfig
  \/ FixSSHConfigInternal
  \/ SetupSSHConfig

(***************************************************************************)
(* Part III: the connection script and its repair.                         *)
(*                                                                         *)
(* The script is a sequence of lines, each a line of text of               *)
(* sagemaker_connect.ps1. The lines of the blocks the repairs insert are   *)
(* the lines of the code's own text; of each block the model keeps the     *)
(* lines that some test of the repairs can tell apart from a plain         *)
(* statement, in their order. The regular expressions of the code are      *)
(* evaluated on the lines by the sets below, which list for each test the  *)
(* lines its text matches.                                                 *)
(***************************************************************************)
\* repair operations in one run of SpecScript
MaxScrRuns == 3

\* Lines of the script being repaired, one for each text the repairs' tests
\* tell apart.
ScriptLine ==
  [ comment |-> "# sagemaker_connect.ps1",
    err1 |-> "# Missing ')' in function parameter list",
    err2 |-> "# Unexpected token '-Object'",
    param |-> "param([string]$Hostname)",
    param_open |-> "param(",
    param_arg |-> "    [string]$Hostname",
    param_close |-> ")",
    if |-> "if ($Hostname -match \"^sm_(lc|dl)_(.+)$\") {",
    arn_old |-> "    $AWS_RESOURCE_ARN = $matches[2] -replace '_._', ':' -replace '__', '/'",
    arn_new |-> "    $AWS_RESOURCE_ARN = $matches[2] -replace '_._', ':' -replace '._', ':' -replace '__', '/'",
    arn_esc |-> "    $AWS_RESOURCE_ARN = $matches[2] -replace '_\\._', ':' -replace '__', '/'",
    brace |-> "}",
    func |-> "function Get-SSMSessionInfo {",
    url |-> "      $url = \"http://localhost:$port/get_session\"",
    try |-> "      try {",
    json |-> "          $script:SSM_SESSION_JSON = $response.Content",
    retrieved |-> "          Write-Host \"Session JSON successfully retrieved\"",
    catch |-> "      } catch {",
    werr |-> "          Write-Error \"Exception in Get-SSMSessionInfo: $_\"",
    throw |-> "          throw",
    exit |-> "          exit 1",
    close |-> "      }",
    func2 |-> "  function Get-SSMSessionInfo {",
    brace2 |-> "  }",
    call |-> "Get-SSMSessionInfo",
    trace |-> "Write-Host \"DEBUG: 12+ >>>> Get-SSMSessionInfo\"",
    trace_off |-> "# Suppressed debug output: 12+ >>>> Get-SSMSessionInfo",
    blank |-> "" ]

\* Lines of arnConversionCode (QuickStartService.ts 801-813, 1330-1342).
ArnLine ==
  [ mark |-> "# Convert app ARN to space ARN if needed (server only accepts space ARNs)",
    if |-> "if ($AWS_RESOURCE_ARN -match '^arn:aws:sagemaker:([^:]+):(\\d+):app/([^/]+)/([^/]+)/.*$') {",
    assign |-> "    $AWS_RESOURCE_ARN = \"arn:aws:sagemaker:\" + $region + \":\" + $account + \":space/\" + $domain + \"/\" + $space" ]

\* Lines of retryLogicCode of fixArnConversionInternal (845-917). In the
\* template literal \${attempt} stands for the text ${attempt}.
RetryLine ==
  [ comment10 |-> "      # Reduced retries to fail faster - SSH ConnectTimeout is 30 seconds",
    max10 |-> "      $maxRetries = 10",
    for |-> "      for ($attempt = 1; $attempt -le $maxRetries; $attempt++) {",
    try |-> "          try {",
    attempt_brace |-> "              Write-Host \"Attempt ${attempt} of $maxRetries to get SSM session info...\"",
    json |-> "                  $script:SSM_SESSION_JSON = $response.Content",
    retrieved_brace |-> "                  Write-Host \"Session JSON successfully retrieved on attempt ${attempt}\"",
    catch |-> "          } catch {",
    err_brace |-> "                      Write-Host \"HTTP error ${statusCode} on attempt ${attempt}: $($_.Exception.Message), will retry...\"",
    end_try |-> "          }",
    failed |-> "      Write-Error \"Failed to get SSM session info after $maxRetries attempts. Last error: $lastError\"",
    exit |-> "      exit 1",
    \* Lines of retryLogicCode of FixService.fixArnConversion (1362-1423) that
    \* differ from the ones above.
    max20 |-> "      $maxRetries = 20",
    wait |-> "      Write-Host \"Waiting 5 seconds for server to initialize...\"",
    attempt |-> "              Write-Host \"Attempt $attempt of $maxRetries to get SSM session info...\"",
    retrieved_on |-> "                  Write-Host \"Session JSON successfully retrieved on attempt $attempt\"",
    \* Lines of the retry loop of an older version, which hasIncorrectSyntax and
    \* hasOldRetryCount (774-782) look for.
    max50 |-> "      $maxRetries = 50",
    err_bad |-> "                      Write-Host \"HTTP error $statusCode on attempt $attempt: $($_.Exception.Message), will retry...\"",
    \* The last line of a retry loop joined with the closing brace that follows
    \* the replaced text (manual replacement, 1492-1494).
    exit_joined |-> "      exit 1      }" ]

\* Lines of debugSuppressionCode (1992-2019).
DebugLine ==
  [ mark |-> "# Suppress debug output for SSH ProxyCommand compatibility",
    pref |-> "$DebugPreference = 'SilentlyContinue'",
    alias |-> "Set-Alias -Name Write-Host-Original -Value Write-Host -Scope Global -Force",
    func |-> "function Write-Host {",
    param |-> "    param(",
    args |-> "        [object[]]$Object,",
    param_end |-> "    )",
    body |-> "    Write-Host-Original -Object $Object @allParams *>&2" ]

ArnConversion == <<ScriptLine.blank, ArnLine.mark, ArnLine.if, ArnLine.assign, ScriptLine.brace>>

RetryInternal ==
  <<RetryLine.comment10, RetryLine.max10, RetryLine.for, RetryLine.try, RetryLine.attempt_brace, RetryLine.json,
    RetryLine.retrieved_brace, RetryLine.catch, RetryLine.err_brace, RetryLine.end_try, ScriptLine.close, RetryLine.failed,
    RetryLine.exit>>

RetryFixService ==
  <<RetryLine.max20, RetryLine.wait, RetryLine.for, RetryLine.try, RetryLine.attempt, RetryLine.json, RetryLine.retrieved_on,
    RetryLine.catch, RetryLine.err_brace, RetryLine.end_try, ScriptLine.close, RetryLine.failed, RetryLine.exit>>

RetryLegacy ==
  <<RetryLine.max50, RetryLine.for, RetryLine.try, RetryLine.attempt, RetryLine.json, RetryLine.retrieved_on, RetryLine.catch,
    RetryLine.err_bad, RetryLine.end_try, ScriptLine.close, RetryLine.failed, RetryLine.exit>>

DebugSuppression ==
  <<DebugLine.mark, DebugLine.pref, DebugLine.alias, DebugLine.func, DebugLine.param, DebugLine.args, DebugLine.param_end, DebugLine.body,
    ScriptLine.brace, ScriptLine.blank>>

(***************************************************************************)
(* The lines each test of the repairs matches.                             *)
(***************************************************************************)
LinesOf ==
    \* includes("Convert app ARN to space ARN")
  [ ArnMarker |-> {ArnLine.mark},
    \* includes("Attempt $attempt of $maxRetries to get SSM session info")
    RetryMarker |-> {RetryLine.attempt},
    \* includes("HTTP error $statusCode on attempt $attempt:") and the two others
    BadSyntax |-> {RetryLine.err_bad},
    \* /\$maxRetries\s*=\s*(\d+)/
    MaxRetries |-> {RetryLine.max10, RetryLine.max20, RetryLine.max50},
    \* arnPatternOld, arnPattern: ... -replace '_\._', ':' -replace '__', '\/'
    ArnOld |-> {ScriptLine.arn_old},
    \* arnPatternNew: ... -replace '_\._', ':' -replace '\._', ':' -replace '__', '\/'
    ArnNew |-> {ScriptLine.arn_new},
    \* /AWS_RESOURCE_ARN.*-replace/
    ArnReplace |-> {ScriptLine.arn_old, ScriptLine.arn_new, ScriptLine.arn_esc},
    \* /(\$AWS_RESOURCE_ARN = \$matches\[2\][^\n]*\n)/
    ArnAssign |-> {ScriptLine.arn_old, ScriptLine.arn_new, ScriptLine.arn_esc},
    \* /Write-Error "Failed to get SSM session info after.*?exit\s+1/: the dot stops
    \* at the line end, and no line has exit 1 after the Write-Error on it
    FailedExit |-> {},
    \* /\s+try\s*\{/
    Try |-> {ScriptLine.try, RetryLine.try},
    \* /\$script:SSM_SESSION_JSON = \$response\.Content/
    Json |-> {ScriptLine.json, RetryLine.json},
    \* /Write-Host "Session JSON successfully retrieved"/
    Retrieved |-> {ScriptLine.retrieved},
    \* /\}\s*catch\s*\{/
    Catch |-> {ScriptLine.catch, RetryLine.catch},
    \* /Write-Error "Exception in Get-SSMSessionInfo: \$_"/
    Exception |-> {ScriptLine.werr},
    \* /exit\s+1/
    Exit |-> {ScriptLine.exit, RetryLine.exit, RetryLine.exit_joined},
    \* /\}/
    Brace |->
        {ScriptLine.brace, ScriptLine.catch, ScriptLine.close,
        ScriptLine.brace2, RetryLine.attempt_brace, RetryLine.retrieved_brace,
        RetryLine.catch, RetryLine.err_brace, RetryLine.end_try,
        RetryLine.exit_joined},
    \* "function Get-SSMSessionInfo {"
    FuncHead |-> {ScriptLine.func, ScriptLine.func2},
    \* /\n\}/: a line that begins with }
    Col0Brace |-> {ScriptLine.brace},
    \* "\nfunction ": a line that begins with function
    Col0Function |-> {ScriptLine.func, DebugLine.func},
    \* "\n      try {"
    Try6 |-> {ScriptLine.try},
    \* "      }\n": a line that ends with six spaces and }
    Ends6Brace |-> {ScriptLine.close, RetryLine.end_try, RetryLine.exit_joined},
    \* "\n  }"
    Ind2Brace |-> {ScriptLine.brace2},
    \* !line (trimmed)
    Blank |-> {ScriptLine.blank},
    \* line.startsWith("#") (trimmed)
    Comment |->
        {ScriptLine.comment, ScriptLine.err1, ScriptLine.err2, ScriptLine.trace_off,
        ArnLine.mark, RetryLine.comment10, DebugLine.mark},
    \* line.includes("param(")
    Param |-> {ScriptLine.param, ScriptLine.param_open, DebugLine.param},
    \* line.includes(")")
    CloseParen |->
        {ScriptLine.err1, ScriptLine.param, ScriptLine.param_close,
        ScriptLine.if, ArnLine.mark, ArnLine.if,
        RetryLine.for, RetryLine.err_brace, RetryLine.err_bad,
        DebugLine.param_end},
    \* includes("Missing ')' in function parameter list")
    Err1 |-> {ScriptLine.err1},
    \* includes("Unexpected token '-Object'")
    Err2 |-> {ScriptLine.err2},
    \* includes("$DebugPreference = 'SilentlyContinue'")
    DebugPref |-> {DebugLine.pref},
    \* includes("# Suppress debug output for SSH ProxyCommand compatibility")
    DebugMarker |-> {DebugLine.mark},
    \* /Write-Host\s+"DEBUG:\s*(\d+)\+\s+>>>>\s+(.+?)"/g
    Trace |-> {ScriptLine.trace} ]

\* (line.match(/\(/g) || []).length - (line.match(/\)/g) || []).length
ParenDelta(l) ==
  IF l \in {ScriptLine.param_open, DebugLine.param} THEN 1
  ELSE IF l \in {ScriptLine.err1, ScriptLine.param_close, DebugLine.param_end} THEN -1
  ELSE 0

\* parseInt of the digits /\$maxRetries\s*=\s*(\d+)/ captures
MaxRetriesOf(l) == IF l = RetryLine.max10 THEN 10 ELSE IF l = RetryLine.max20 THEN 20 ELSE 50

(***************************************************************************)
(* Matching on lines. An index of -1 stands for "no match".               *)
(***************************************************************************)
\* the first line after line i that is in W
After(sc, i, W) ==
  IF i < 0 THEN -1
  ELSE LET S == {j \in (i + 1)..Len(sc) : sc[j] \in W}
       IN IF S = {} THEN -1 ELSE MinOf(S)

\* \s+ in front of an anchor on line a takes the blank lines before it
BlankStart(sc, a) ==
  MinOf({k \in 1..a : \A j \in k..(a - 1) : sc[j] \in LinesOf.Blank})

\* \s*\n behind an anchor on line a takes the blank lines after it
BlankEnd(sc, a) ==
  CHOOSE k \in a..Len(sc) :
    /\ \A j \in (a + 1)..k : sc[j] \in LinesOf.Blank
    /\ (k < Len(sc) => sc[k + 1] \notin LinesOf.Blank)

\* lines from..to replaced by block (an insertion when to = from - 1)
ReplaceLines(sc, from, to, block) ==
  SubSeq(sc, 1, from - 1) \o block \o SubSeq(sc, to + 1, Len(sc))

\* tryCatchPattern (961-962, 1430-1431): the first try, then lazily the
\* assignment, the Write-Host, the catch, the Write-Error, exit 1 and the
\* next closing brace; the line of that brace.
TryCatchEnd(sc) ==
  LET a == After(sc, 0, LinesOf.Try)
      b == After(sc, a, LinesOf.Json)
      c == After(sc, b, LinesOf.Retrieved)
      d == After(sc, c, LinesOf.Catch)
      e == After(sc, d, LinesOf.Exception)
      f == After(sc, e, LinesOf.Exit)
  IN After(sc, f, LinesOf.Brace)

\* permissivePattern (971-972, 1449-1450): the function header, the first try
\* after it, the catch, the Write-Error, exit 1, the next closing brace (the
\* end of group 2), and a line that begins with } after it.
PermissiveTry(sc) == After(sc, After(sc, 0, LinesOf.FuncHead), LinesOf.Try)

PermissiveEnd(sc) ==
  LET d == After(sc, PermissiveTry(sc), LinesOf.Catch)
      e == After(sc, d, LinesOf.Exception)
      f == After(sc, e, LinesOf.Exit)
      g == After(sc, f, LinesOf.Brace)
  IN IF After(sc, g, LinesOf.Col0Brace) < 0 THEN -1 ELSE g

\* The replacement of the try/catch by the retry loop (964-983): by
\* tryCatchPattern, else by permissivePattern, else nothing.
InstallRetry(sc, retry) ==
  IF TryCatchEnd(sc) > 0
  THEN ReplaceLines(sc, BlankStart(sc, After(sc, 0, LinesOf.Try)),
                    TryCatchEnd(sc), retry)
  ELSE IF PermissiveEnd(sc) > 0
  THEN ReplaceLines(sc, BlankStart(sc, PermissiveTry(sc)),
                    PermissiveEnd(sc), retry)
  ELSE sc

CanInstallRetry(sc) == TryCatchEnd(sc) > 0 \/ PermissiveEnd(sc) > 0

\* The manual replacement of FixService.fixArnConversion (1467-1512).
\* funcEnd is the next line that begins with "function ", else the end.
FuncEnd(sc, s) ==
  IF After(sc, s, LinesOf.Col0Function) < 0 THEN Len(sc)
  ELSE After(sc, s, LinesOf.Col0Function) - 1

\* lastIndexOf("      }\n  }"), else lastIndexOf("\n  }"), in the function:
\* [line, joined]; joined tells that the match begins inside its line.
CatchEnd(sc, s) ==
  LET P == {c \in (s + 1)..(FuncEnd(sc, s) - 1) :
              sc[c] \in LinesOf.Ends6Brace /\ sc[c + 1] \in LinesOf.Ind2Brace}
      Q == {c \in (s + 1)..FuncEnd(sc, s) : sc[c] \in LinesOf.Ind2Brace}
  IN IF P # {} THEN [line |-> CHOOSE c \in P : \A x \in P : x <= c,
                     joined |-> TRUE]
     ELSE IF Q # {} THEN [line |-> CHOOSE c \in Q : \A x \in Q : x <= c,
                          joined |-> FALSE]
     ELSE [line |-> -1, joined |-> FALSE]

ManualInstall(sc, retry) ==
  LET s == After(sc, 0, LinesOf.FuncHead)
      T == {t \in (s + 1)..FuncEnd(sc, s) : sc[t] \in LinesOf.Try6}
  IN IF s < 0 \/ T = {} THEN sc
     ELSE LET t == MinOf(T)
              ce == CatchEnd(sc, s)
          IN IF ce.line < t THEN sc
             ELSE IF ce.joined
             THEN ReplaceLines(sc, t, ce.line,
                    SubSeq(retry, 1, Len(retry) - 1) \o <<RetryLine.exit_joined>>)
             ELSE ReplaceLines(sc, t, ce.line - 1, retry)

\* oldRetryPattern (925-930): from the white space before the first
\* $maxRetries = n to the first later line that has exit 1 behind
\* Write-Error "Failed to get SSM session info after.
RemoveOldRetry(sc) ==
  LET m == After(sc, 0, LinesOf.MaxRetries)
      x == After(sc, m, LinesOf.FailedExit)
  IN IF x < 0 THEN sc ELSE ReplaceLines(sc, BlankStart(sc, m), x, <<>>)

\* lines 935-957: the lines with the incorrect syntax are dropped
GoodSyntax(l) == l \notin LinesOf.BadSyntax

RemoveBadLines(sc) == SelectSeq(sc, GoodSyntax)

\* lines 816-829: the first old ARN line becomes the new one
FixArnPattern(sc) ==
  IF Includes(sc, LinesOf.ArnOld) /\ ~Includes(sc, LinesOf.ArnNew)
  THEN ReplaceLines(sc, After(sc, 0, LinesOf.ArnOld),
                    BlankEnd(sc, After(sc, 0, LinesOf.ArnOld)), <<ScriptLine.arn_new>>)
  ELSE sc

\* retryCount (780-781)
RetryCount(sc) ==
  IF Includes(sc, LinesOf.MaxRetries)
  THEN MaxRetriesOf(sc[After(sc, 0, LinesOf.MaxRetries)])
  ELSE 0

\* The text fixArnConversionInternal computes past its backup (801-984).
InternalPatch(sc) ==
  LET arnFixApplied == Includes(sc, LinesOf.ArnMarker)
      retryFixApplied == Includes(sc, LinesOf.RetryMarker)
      hasIncorrectSyntax == Includes(sc, LinesOf.BadSyntax)
      hasOldRetryCount == RetryCount(sc) # 10
      s1 == FixArnPattern(sc)
      s2 == IF ~arnFixApplied /\ Includes(s1, LinesOf.ArnReplace)
                 /\ Includes(s1, LinesOf.ArnAssign)
            THEN ReplaceLines(s1, After(s1, 0, LinesOf.ArnAssign) + 1,
                              After(s1, 0, LinesOf.ArnAssign), ArnConversion)
            ELSE s1
      s3 == IF hasIncorrectSyntax \/ hasOldRetryCount
            THEN RemoveOldRetry(s2) ELSE s2
      s4 == IF hasIncorrectSyntax THEN RemoveBadLines(s3) ELSE s3
  IN IF ~retryFixApplied \/ hasIncorrectSyntax \/ hasOldRetryCount
     THEN InstallRetry(s4, RetryInternal)
     ELSE s2

\* The text FixService.fixArnConversion computes past its backup (1329-1527).
FixServicePatch(sc) ==
  LET arnFixApplied == Includes(sc, LinesOf.ArnMarker)
      retryFixApplied == Includes(sc, LinesOf.RetryMarker)
      s1 == IF ~arnFixApplied /\ Includes(sc, LinesOf.ArnOld)
            THEN ReplaceLines(sc, BlankEnd(sc, After(sc, 0, LinesOf.ArnOld)) + 1,
                              BlankEnd(sc, After(sc, 0, LinesOf.ArnOld)),
                              ArnConversion)
            ELSE sc
  IN IF retryFixApplied THEN s1
     ELSE IF CanInstallRetry(s1) THEN InstallRetry(s1, RetryFixService)
     ELSE ManualInstall(s1, RetryFixService)

\* The texts fixArnConversionInternal passes through, each computed once:
\* after the ARN pattern fix (816-829), after the ARN insertion (831-843),
\* after the removal of the old retry loop (925-930) and after the removal
\* of the lines with the incorrect syntax (933-958).
InternalStages(sc) ==
  LET arnFixApplied == Includes(sc, LinesOf.ArnMarker)
      hasIncorrectSyntax == Includes(sc, LinesOf.BadSyntax)
      redo == hasIncorrectSyntax \/ RetryCount(sc) # 10
  IN UNION { UNION { UNION {
       { <<s1, s2, s3, s4>> :
           s4 \in {IF hasIncorrectSyntax THEN RemoveBadLines(s3) ELSE s3} } :
           s3 \in {IF redo THEN RemoveOldRetry(s2) ELSE s2} } :
           s2 \in {IF ~arnFixApplied /\ Includes(s1, LinesOf.ArnReplace)
                        /\ Includes(s1, LinesOf.ArnAssign)
                   THEN ReplaceLines(s1, After(s1, 0, LinesOf.ArnAssign) + 1,
                                     After(s1, 0, LinesOf.ArnAssign),
                                     ArnConversion)
                   ELSE s1} } :
           s1 \in {FixArnPattern(sc)} }

\* The changes fixArnConversionInternal logs (828, 841, 929, 952, 969, 981).
InternalLog(sc) ==
  UNION { (IF st[1] # sc THEN {"arnPattern"} ELSE {})
          \cup (IF st[2] # st[1] THEN {"arn"} ELSE {})
          \cup (IF st[3] # st[2] THEN {"removedOld"} ELSE {})
          \cup (IF Len(st[4]) < Len(st[3]) THEN {"removedLines"} ELSE {})
          \cup (IF /\ \/ ~Includes(sc, LinesOf.RetryMarker)
                      \/ Includes(sc, LinesOf.BadSyntax)
                      \/ RetryCount(sc) # 10
                   /\ CanInstallRetry(st[4])
                THEN {"retry"} ELSE {}) :
          st \in InternalStages(sc) }

\* The changes FixService.fixArnConversion logs (1355, 1439, 1460, 1500) and
\* its warnings (1507, 1515, 1520).
FixServiceLog(sc) ==
  UNION { (IF s1 # sc THEN {"arn"} ELSE {})
          \cup (IF Includes(sc, LinesOf.RetryMarker) THEN {}
                ELSE IF \/ CanInstallRetry(s1)
                        \/ ManualInstall(s1, RetryFixService) # s1
                THEN {"retry"} ELSE {"warn"}) :
          s1 \in {IF ~Includes(sc, LinesOf.ArnMarker) /\ Includes(sc, LinesOf.ArnOld)
                  THEN ReplaceLines(sc, BlankEnd(sc, After(sc, 0, LinesOf.ArnOld)) + 1,
                                    BlankEnd(sc, After(sc, 0, LinesOf.ArnOld)),
                                    ArnConversion)
                  ELSE sc} }

\* the write gate of both (986-994, 1530-1537)
HasAMarker(sc) == Includes(sc, LinesOf.ArnMarker) \/ Includes(sc, LinesOf.RetryMarker)

\* fixPowerShellDebugOutput, lines 2023-2065: the number of lines in front of
\* the insertion point. i is the line looked at, inParamBlock and parenCount
\* the variables of the loop. A function definition and any other executable
\* line both end the loop with insertIndex = i.
RECURSIVE InsertIndex(_, _, _, _)
InsertIndex(sc, i, inParamBlock, parenCount) ==
  IF i > Len(sc) THEN 0
  ELSE IF sc[i] \in LinesOf.Blank \cup LinesOf.Comment
  THEN InsertIndex(sc, i + 1, inParamBlock, parenCount)
  ELSE IF sc[i] \in LinesOf.Param
  THEN InsertIndex(sc, i + 1, TRUE, ParenDelta(sc[i]))
  ELSE IF inParamBlock
  THEN IF parenCount + ParenDelta(sc[i]) <= 0 /\ sc[i] \in LinesOf.CloseParen
       THEN i
       ELSE InsertIndex(sc, i + 1, TRUE, parenCount + ParenDelta(sc[i]))
  ELSE i - 1

\* lines 2075-2078: the trace lines become comments
SuppressTrace(sc) ==
  [i \in 1..Len(sc) |-> IF sc[i] \in LinesOf.Trace THEN ScriptLine.trace_off ELSE sc[i]]

\* lines 2067-2078
DebugPatch(sc) ==
  SuppressTrace(ReplaceLines(sc, InsertIndex(sc, 1, FALSE, 0) + 1,
                             InsertIndex(sc, 1, FALSE, 0), DebugSuppression))

\* hasSyntaxError (1928-1930)
HasSyntaxError(sc) ==
  \/ Includes(sc, LinesOf.Err1)
  \/ Includes(sc, LinesOf.DebugPref) /\ Includes(sc, LinesOf.Err2)

(***************************************************************************)
(* The scripts the repairs start from: a preamble, the ARN derivation, the *)
(* function Get-SSMSessionInfo and the call.                               *)
(***************************************************************************)
Preambles ==
  { <<>>, <<ScriptLine.comment>>, <<ScriptLine.err1>>, <<ScriptLine.err2>>, <<ScriptLine.param>>,
    <<ScriptLine.param_open, ScriptLine.param_arg, ScriptLine.param_close>> }

ArnParts ==
  { <<>> } \cup { <<ScriptLine.if, l, ScriptLine.brace>> : l \in {ScriptLine.arn_old, ScriptLine.arn_new, ScriptLine.arn_esc} }

FuncParts ==
  { <<>>,
    <<ScriptLine.func, ScriptLine.url, ScriptLine.try, ScriptLine.json, ScriptLine.retrieved, ScriptLine.catch, ScriptLine.werr, ScriptLine.exit,
      ScriptLine.close, ScriptLine.brace>>,
    <<ScriptLine.func, ScriptLine.url, ScriptLine.try, ScriptLine.json, ScriptLine.catch, ScriptLine.werr, ScriptLine.exit, ScriptLine.close,
      ScriptLine.brace>>,
    <<ScriptLine.func2, ScriptLine.url, ScriptLine.try, ScriptLine.json, ScriptLine.catch, ScriptLine.throw, ScriptLine.close, ScriptLine.brace2>>,
    <<ScriptLine.func, ScriptLine.url>> \o RetryLegacy \o <<ScriptLine.brace>>,
    \* the same loop with the error line in the correct syntax
    <<ScriptLine.func, ScriptLine.url>>
      \o [RetryLegacy EXCEPT ![8] = RetryLine.err_brace] \o <<ScriptLine.brace>>,
    \* the loop of fixArnConversion with the count the user lowered to the
    \* one fixArnConversionInternal asks for (774-787)
    <<ScriptLine.func, ScriptLine.url>>
      \o [RetryFixService EXCEPT ![1] = RetryLine.max10] \o <<ScriptLine.brace>> }

Tails == { <<ScriptLine.call>>, <<ScriptLine.trace, ScriptLine.call>> }

ScriptDocs ==
  { p \o a \o f \o t : p \in Preambles, a \in ArnParts, f \in FuncParts,
                       t \in Tails }

\* The script in the specifications that do not run the script repair: the
\* server has not started, there is no script.
ScrQuiet ==
  /\ scrExists = FALSE
  /\ scrFile = <<>>
  /\ scrBackups = <<>>
  /\ scrOp = "none" /\ scrReport = "none" /\ scrWrote = FALSE /\ scrRuns = 0
  /\ scrLog = {}

ScrInit ==
  /\ scrExists \in BOOLEAN
  /\ scrFile \in ScriptDocs \cup {<<>>}
  /\ (scrExists <=> scrFile # <<>>)
  /\ scrBackups = <<>>
  /\ scrOp = "none" /\ scrReport = "none" /\ scrWrote = FALSE /\ scrRuns = 0
  /\ scrLog = {}

\* One more run; the file exists or not as before.
ScrRun(op) ==
  /\ scrRuns < MaxScrRuns
  /\ scrRuns' = scrRuns + 1
  /\ scrOp' = op
  /\ UNCHANGED <<scrExists, notScr>>

ScrNoChange(report) ==
  /\ scrReport' = report
  /\ scrWrote' = FALSE
  /\ scrLog' = {}
  /\ UNCHANGED <<scrFile, scrBackups>>

\* The script as the AWS Toolkit writes it when the server starts.
Regenerated ==
  <<ScriptLine.if, ScriptLine.arn_old, ScriptLine.brace, ScriptLine.func,
    ScriptLine.url, ScriptLine.try, ScriptLine.json, ScriptLine.retrieved,
    ScriptLine.catch, ScriptLine.werr, ScriptLine.exit, ScriptLine.close,
    ScriptLine.brace, ScriptLine.call>>

\* What copyFileSync finds on disk after readFileSync returned sc: sc, or,
\* raced, the script the toolkit has written in between.
DiskAtCopy(sc, raced) == IF raced THEN Regenerated ELSE sc

\* The backup is a copy of the file on disk; then the write of text if the
\* gate is open.
ScrBackupAndWrite(text, gate, disk, log) ==
  /\ scrBackups' = Append(scrBackups, disk)
  /\ scrLog' = log
  /\ IF gate
     THEN scrFile' = text /\ scrWrote' = TRUE /\ scrReport' = "updated"
     ELSE scrFile' = disk /\ scrWrote' = FALSE /\ scrReport' = "nothing"

\* QuickStartService.fixArnConversionInternal (752-998)
FixArnConversionInternal(raced) ==
  /\ ScrRun("fixArnConversionInternal")
  /\ IF ~scrExists THEN ScrNoChange("nofile")
     ELSE IF /\ Includes(scrFile, LinesOf.ArnMarker)
             /\ Includes(scrFile, LinesOf.RetryMarker)
             /\ ~Includes(scrFile, LinesOf.BadSyntax)
             /\ RetryCount(scrFile) = 10
     THEN ScrNoChange("applied")
     ELSE ScrBackupAndWrite(InternalPatch(scrFile),
                            HasAMarker(InternalPatch(scrFile)),
                            DiskAtCopy(scrFile, raced),
                            InternalLog(scrFile))

\* FixService.fixArnConversion (1279-1576)
FixArnConversion(raced) ==
  /\ ScrRun("fixArnConversion")
  /\ IF ~scrExists THEN ScrNoChange("nofile")
     ELSE IF /\ Includes(scrFile, LinesOf.ArnMarker)
             /\ Includes(scrFile, LinesOf.RetryMarker)
     THEN ScrNoChange("applied")
     ELSE ScrBackupAndWrite(FixServicePatch(scrFile),
                            HasAMarker(FixServicePatch(scrFile)),
                            DiskAtCopy(scrFile, raced),
                            FixServiceLog(scrFile))

\* FixService.fixPowerShellDebugOutput (1899-2098); choice is the answer to
\* "Script has syntax errors. Restore from backup?". The restored script is
\* written (1954) before the backup of this run is taken (1986).
FixPowerShellDebugOutput(choice, raced) ==
  /\ ScrRun("fixPowerShellDebugOutput")
  /\ IF ~scrExists THEN ScrNoChange("nofile")
     ELSE IF HasSyntaxError(scrFile)
     THEN IF scrBackups = <<>> THEN ScrNoChange("nobackup")
          ELSE IF choice # "Restore" THEN ScrNoChange("skipped")
          ELSE /\ scrBackups' = Append(scrBackups, scrBackups[Len(scrBackups)])
               /\ scrFile' = DebugPatch(scrBackups[Len(scrBackups)])
               /\ scrWrote' = TRUE
               /\ scrReport' = "updated"
               /\ scrLog' = {"restored", "debug"}
     ELSE IF Includes(scrFile, LinesOf.DebugMarker) THEN ScrNoChange("applied")
     ELSE ScrBackupAndWrite(DebugPatch(scrFile), TRUE,
                            DiskAtCopy(scrFile, raced), {"debug"})

ScrNext ==
  \/ \E raced \in BOOLEAN : FixArnConversionInternal(raced)
  \/ \E raced \in BOOLEAN : FixArnConversion(raced)
  \/ \E choice \in {"Restore", "Skip"}, raced \in BOOLEAN :
       FixPowerShellDebugOutput(choice, raced)

(***************************************************************************)
(* Part IV: checkPrerequisites (part_001 198-255).                         *)
(***************************************************************************)
\* The texts of ~/.ssh/config the check is run on.
PreDocs ==
  { <<>>,
    Flatten(<< <<"Host", "gpu">>, <<"HostName", "<hostname>">> >>),
    Flatten(<< <<"Host", "sagemaker-dev">>, <<"HostName", "<hostname>">> >>),
    Flatten(<< <<"Host", "gpu">>, <<"Host", "sagemaker">>,
               <<"HostName", "<hostname>">> >>) }

PreEnvs ==
  [awsCli : BOOLEAN, pluginFile : BOOLEAN, pluginCmd : BOOLEAN,
   remoteSSH : BOOLEAN, awsToolkit : BOOLEAN,
   configFile : {"absent", "readable", "unreadable"},
   configText : PreDocs]

\* the local variables at the start of the call
PreLocals ==
  [allPassed |-> FALSE, awsCli |-> FALSE, sessionManagerPlugin |-> FALSE,
   remoteSSH |-> FALSE, sshConfig |-> FALSE, awsToolkit |-> FALSE,
   errors |-> <<>>]

\* No call of checkPrerequisites is made.
PreQuiet ==
  /\ preEnv = [awsCli |-> TRUE, pluginFile |-> TRUE, pluginCmd |-> TRUE,
               remoteSSH |-> TRUE, awsToolkit |-> TRUE,
               configFile |-> "absent", configText |-> <<>>]
  /\ prePc = "idle"
  /\ preReport = PreLocals

PreInit ==
  /\ preEnv \in PreEnvs
  /\ (preEnv.configFile = "absent" <=> preEnv.configText = <<>>)
  /\ prePc = "awsCli"
  /\ preReport = PreLocals

\* lines 209-216: await execAsync('aws --version') in a try/catch
CheckAwsCli ==
  /\ prePc = "awsCli"
  /\ prePc' = "plugin"
  /\ preReport' = IF preEnv.awsCli THEN [preReport EXCEPT !.awsCli = TRUE]
                  ELSE [preReport EXCEPT
                          !.errors = Append(@, "AWS CLI not found")]
  /\ UNCHANGED <<preEnv, notPre>>

\* Mutant of CheckSessionManagerPlugin: a missing plugin records no error.
CheckPluginSilently ==
  /\ prePc = "plugin"
  /\ prePc' = "rest"
  /\ preReport' = IF preEnv.pluginFile \/ preEnv.pluginCmd
                  THEN [preReport EXCEPT !.sessionManagerPlugin = TRUE]
                  ELSE preReport
  /\ UNCHANGED <<preEnv, notPre>>

\* lines 218-231: the install path, else the version command in a try/catch
CheckSessionManagerPlugin ==
  /\ prePc = "plugin"
  /\ prePc' = "rest"
  /\ preReport' = IF preEnv.pluginFile \/ preEnv.pluginCmd
                  THEN [preReport EXCEPT !.sessionManagerPlugin = TRUE]
                  ELSE [preReport EXCEPT
                          !.errors = Append(@, "Session Manager Plugin not found")]
  /\ UNCHANGED <<preEnv, notPre>>

\* lines 233-255: the extensions, the SSH config (existsSync, readFileSync
\* and includes('Host sagemaker'), outside any try) and the return.
CheckRestAndReturn ==
  /\ prePc = "rest"
  /\ UNCHANGED <<preEnv, notPre>>
  /\ IF preEnv.configFile = "unreadable"
     THEN /\ prePc' = "threw"
          /\ preReport' = [preReport EXCEPT !.remoteSSH = preEnv.remoteSSH]
     ELSE /\ prePc' = "returned"
          /\ preReport' =
               [preReport EXCEPT
                  !.remoteSSH = preEnv.remoteSSH,
                  !.sshConfig = /\ preEnv.configFile = "readable"
                                /\ IncludesHostSagemaker(preEnv.configText),
                  !.awsToolkit = preEnv.awsToolkit,
                  !.allPassed =
                     /\ Len(preReport.errors) = 0
                     /\ preEnv.remoteSSH
                     /\ preEnv.configFile = "readable"
                     /\ IncludesHostSagemaker(preEnv.configText)]

PreNext ==
  \/ CheckAwsCli
  \/ CheckSessionManagerPlugin
  \/ CheckRestAndReturn

(***************************************************************************)
(* Part V: ExecUtils.findSSHPath and ExecUtils.execute (ExecUtils.ts       *)
(* 12-112).                                                                *)
(***************************************************************************)
Callers == 1..MaxCallers

\* possiblePaths (24-29) without the last entry "ssh", in their order
possiblePaths ==
  << "C:\\Windows\\System32\\OpenSSH\\ssh.exe",
     "C:\\Program Files\\OpenSSH\\ssh.exe",
     "C:\\Program Files\\Git\\usr\\bin\\ssh.exe" >>

WellKnown == {possiblePaths[i] : i \in 1..Len(possiblePaths)}

\* the one path, or the first of the paths, the where command prints
WHERE_HIT == "C:\\Tools\\ssh.exe"

\* the loop 31-61 over the install paths: the first that exists, else "null"
FirstExisting(fs) ==
  IF \E i \in 1..Len(possiblePaths) : possiblePaths[i] \in fs
  THEN possiblePaths[MinOf({i \in 1..Len(possiblePaths) : possiblePaths[i] \in fs})]
  ELSE "null"

\* lines 36-49 and 63-66: stdout.trim().split("\n")[0] is taken if it has
\* neither "not found" nor "Could not find" and ends with ".exe". With
\* several paths the first line still ends with CR, so it is not taken;
\* an error without output rejects and the catch goes on. Else "ssh".
WhereResult(out) == IF out = "one" THEN WHERE_HIT ELSE "ssh"

ExeQuiet ==
  /\ sshPathCache = "null"
  /\ fsPaths = {possiblePaths[1]}
  /\ whereOut = "one"
  /\ exPc = [c \in Callers |-> "idle"]
  /\ exKind = [c \in Callers |-> "other"]
  /\ exPath = [c \in Callers |-> "null"]
  /\ exFirst = "null"
  /\ exCalls = MaxExecCalls /\ fsChanges = MaxFsChanges

ExeInit ==
  /\ sshPathCache = "null"
  /\ fsPaths \in SUBSET WellKnown
  /\ whereOut \in {"error", "notfound", "one", "many"}
  /\ exPc = [c \in Callers |-> "idle"]
  /\ exKind = [c \in Callers |-> "other"]
  /\ exPath = [c \in Callers |-> "null"]
  /\ exFirst = "null"
  /\ exCalls = 0 /\ fsChanges = 0

\* this.sshPathCache = v (47, 53, 65)
SetCache(v) ==
  /\ sshPathCache' = v
  /\ exFirst' = IF exFirst = "null" THEN v ELSE exFirst

\* execute(command), lines 73-80 and 101-102, up to its first await: for an
\* ssh command findSSHPath runs to its return (the cache, or an install path
\* that exists) or to the await of the where command.
Execute(c, kind) ==
  /\ exPc[c] \in {"idle", "returned", "threw"}
  /\ exCalls < MaxExecCalls
  /\ exCalls' = exCalls + 1
  /\ exKind' = [exKind EXCEPT ![c] = kind]
  /\ UNCHANGED <<fsPaths, whereOut, fsChanges, notExe>>
  /\ IF kind = "other"
     THEN /\ exPc' = [exPc EXCEPT ![c] = "run"]
          /\ exPath' = [exPath EXCEPT ![c] = "null"]
          /\ UNCHANGED <<sshPathCache, exFirst>>
     ELSE IF sshPathCache # "null"
     THEN /\ exPc' = [exPc EXCEPT ![c] = "run"]
          /\ exPath' = [exPath EXCEPT ![c] = sshPathCache]
          /\ UNCHANGED <<sshPathCache, exFirst>>
     ELSE IF FirstExisting(fsPaths) # "null"
     THEN /\ exPc' = [exPc EXCEPT ![c] = "run"]
          /\ exPath' = [exPath EXCEPT ![c] = FirstExisting(fsPaths)]
          /\ SetCache(FirstExisting(fsPaths))
     ELSE /\ exPc' = [exPc EXCEPT ![c] = "where"]
          /\ exPath' = [exPath EXCEPT ![c] = "null"]
          /\ UNCHANGED <<sshPathCache, exFirst>>

\* the callback of exec("cmd /c where ssh 2>&1") and the rest of findSSHPath
WhereDone(c) ==
  /\ exPc[c] = "where"
  /\ exPc' = [exPc EXCEPT ![c] = "run"]
  /\ exPath' = [exPath EXCEPT ![c] = WhereResult(whereOut)]
  /\ SetCache(WhereResult(whereOut))
  /\ UNCHANGED <<fsPaths, whereOut, exKind, exCalls, fsChanges, notExe>>

\* execAsync settles: zero tells that the command exited with 0. A command
\* that fails rejects; for an ssh command the catch (81-85) runs the
\* original command, and its failure is thrown on (86-96); for another
\* command the failure is thrown on (103-110).
CommandDone(c, zero) ==
  /\ exPc[c] \in {"run", "rerun"}
  /\ exPc' = [exPc EXCEPT ![c] =
                IF zero THEN "returned"
                ELSE IF exKind[c] = "ssh" /\ exPc[c] = "run" THEN "rerun"
                ELSE "threw"]
  /\ UNCHANGED <<sshPathCache, fsPaths, whereOut, exKind, exPath, exFirst,
                 exCalls, fsChanges, notExe>>

\* An install path appears on disk or goes away (OpenSSH or Git installed or
\* removed while the extension runs).
FsChange(p) ==
  /\ fsChanges < MaxFsChanges
  /\ fsChanges' = fsChanges + 1
  /\ fsPaths' = IF p \in fsPaths THEN fsPaths \ {p} ELSE fsPaths \cup {p}
  /\ UNCHANGED <<sshPathCache, whereOut, exPc, exKind, exPath, exFirst,
                 exCalls, notExe>>

ExeNext ==
  \/ \E c \in Callers, kind \in {"ssh", "other"} : Execute(c, kind)
  \/ \E c \in Callers : WhereDone(c)
  \/ \E c \in Callers, zero \in BOOLEAN : CommandDone(c, zero)
  \/ \E p \in WellKnown : FsChange(p)

(***************************************************************************)
(* Part VI: the remote probes. ExecUtils.checkRemoteServerInstallation     *)
(* (ExecUtils.ts 202-318), CleanupService.cleanupRemoteServer (part_002    *)
(* 11-112), step 13 of DiagnosticsService.diagnoseConnection               *)
(* (DiagnosticsService.ts 413-435) and the remote calls of the monitor's   *)
(* tick (part_002 326-363).                                                *)
(***************************************************************************)
RmCallers == {"cleanup", "diagnose", "tick"}

NO_INSTALL == "No server installation detected on remote host."

COULD_NOT_CHECK == "Could not check remote server installation: "

NoCheck ==
  [partiallyInstalled |-> FALSE, serverDirExists |-> FALSE,
   serverProcessRunning |-> FALSE, details |-> ""]

RmHosts ==
  [reach : {"ok", "refused", "hang"},
   cursorDir : BOOLEAN, vscodeDir : BOOLEAN, proc : BOOLEAN,
   pipefail : BOOLEAN]

\* ExecUtils.ts 210: the exit status of the remote pipeline
\*   ps aux | grep -E '(cursor-server|vscode-server)' | grep -v grep | head -1
\* It is the status of its last command, head -1, which is 0 whether or not
\* a line came through; only a login shell with the pipefail option on gives
\* the status 1 of the grep that matched nothing.
PipelineStatus(h) == IF h.pipefail /\ ~h.proc THEN 1 ELSE 0

\* ExecUtils.ts 210: the markers the remote command writes; the third is
\* chosen by && and || on the status of the pipeline
RemoteOutput(h) ==
  {IF h.cursorDir THEN "CURSOR_DIR_EXISTS" ELSE "CURSOR_DIR_NOT_FOUND",
   IF h.vscodeDir THEN "VSCODE_DIR_EXISTS" ELSE "VSCODE_DIR_NOT_FOUND",
   IF PipelineStatus(h) = 0
   THEN "SERVER_PROCESS_RUNNING" ELSE "SERVER_PROCESS_NOT_RUNNING"}

\* ExecUtils.ts 212-241: the result when execAsync resolved with the output
\* of the remote tests. No marker is a substring of another, so
\* output.includes is membership.
CheckOf(h) ==
  LET cursorDirExists == "CURSOR_DIR_EXISTS" \in RemoteOutput(h)
      vscodeDirExists == "VSCODE_DIR_EXISTS" \in RemoteOutput(h)
      serverProcessRunning == "SERVER_PROCESS_RUNNING" \in RemoteOutput(h)
      serverDirExists == cursorDirExists \/ vscodeDirExists
      partiallyInstalled == serverDirExists \/ serverProcessRunning
  IN [partiallyInstalled |-> partiallyInstalled,
      serverDirExists |-> serverDirExists,
      serverProcessRunning |-> serverProcessRunning,
      details |-> IF partiallyInstalled THEN "found" ELSE NO_INSTALL]

\* ExecUtils.ts 242-317: the result when execAsync rejected
CheckFailed ==
  [partiallyInstalled |-> FALSE, serverDirExists |-> FALSE,
   serverProcessRunning |-> FALSE, details |-> COULD_NOT_CHECK]

checkRemoteServerInstallation(h) ==
  IF h.reach = "ok" THEN CheckOf(h) ELSE CheckFailed

RmQuiet ==
  /\ rmHost = [reach |-> "ok", cursorDir |-> FALSE, vscodeDir |-> FALSE,
               proc |-> FALSE, pipefail |-> FALSE]
  /\ rmPc = [k \in RmCallers |-> "idle"]
  /\ rmCheck = [k \in RmCallers |-> NoCheck]
  /\ rmOut = [k \in RmCallers |-> "none"]
  /\ rmCalls = MaxRemoteCalls

RmInit ==
  /\ rmHost \in RmHosts
  /\ rmPc = [k \in RmCallers |-> "idle"]
  /\ rmCheck = [k \in RmCallers |-> NoCheck]
  /\ rmOut = [k \in RmCallers |-> "none"]
  /\ rmCalls = 0

\* The command is run, the diagnosis reaches step 13, or the interval
\* callback runs: each up to the await of execAsync(checkDirsCommand).
RmStart(k) ==
  /\ rmPc[k] \in {"idle", "done"}
  /\ rmCalls < MaxRemoteCalls
  /\ rmCalls' = rmCalls + 1
  /\ rmPc' = [rmPc EXCEPT ![k] = "probe"]
  /\ rmCheck' = [rmCheck EXCEPT ![k] = NoCheck]
  /\ rmOut' = [rmOut EXCEPT ![k] = "none"]
  /\ UNCHANGED <<rmHost, notRm>>

\* What caller k writes once the probe returned c, and where it goes on:
\* part_002 25-33 (cleanup), DiagnosticsService.ts 418-430 (diagnose),
\* part_002 330-363 (tick).
RmAfterProbe(k, c) ==
  IF k = "cleanup"
  THEN IF ~c.partiallyInstalled
       THEN <<"clean", "done">> ELSE <<"partial", "confirm">>
  ELSE IF k = "diagnose"
  THEN IF c.partiallyInstalled
       THEN <<"partial", "done">> ELSE <<"clean", "done">>
  ELSE IF c.partiallyInstalled THEN <<"partial", "detail">>
  ELSE IF c.details = COULD_NOT_CHECK THEN <<"checkError", "detail">>
  ELSE <<"notYet", "detail">>

\* execAsync(checkDirsCommand) settles (the ssh process exited), and the
\* caller runs on to its next await or to its end. Nothing settles the
\* promise while the process lives: no timer is armed around it.
RmProbeSettles(k) ==
  /\ rmPc[k] = "probe"
  /\ rmHost.reach # "hang"
  /\ \E c \in {checkRemoteServerInstallation(rmHost)} :
       /\ rmCheck' = [rmCheck EXCEPT ![k] = c]
       /\ rmOut' = [rmOut EXCEPT ![k] = RmAfterProbe(k, c)[1]]
       /\ rmPc' = [rmPc EXCEPT ![k] = RmAfterProbe(k, c)[2]]
  /\ UNCHANGED <<rmHost, rmCalls, notRm>>

\* part_002 36-52: the answer to the modal dialog
RmConfirm(yes) ==
  /\ rmPc["cleanup"] = "confirm"
  /\ rmPc' = [rmPc EXCEPT !["cleanup"] = IF yes THEN "rm" ELSE "done"]
  /\ rmOut' = [rmOut EXCEPT !["cleanup"] = IF yes THEN @ ELSE "cancelled"]
  /\ UNCHANGED <<rmHost, rmCheck, rmCalls, notRm>>

\* part_002 55-102: ExecUtils.execute(cleanupCommand) settles; removed tells
\* whether rm -rf succeeded on the host. A rejected call is caught at 95.
RmCleanupSettles(removed) ==
  /\ rmPc["cleanup"] = "rm"
  /\ rmHost.reach # "hang"
  /\ rmPc' = [rmPc EXCEPT !["cleanup"] = "done"]
  /\ rmOut' = [rmOut EXCEPT !["cleanup"] =
                 IF rmHost.reach = "refused" THEN "cleanupFailed"
                 ELSE IF removed THEN "cleaned" ELSE "cleanupMayHaveFailed"]
  /\ rmHost' = IF rmHost.reach = "ok" /\ removed
               THEN [rmHost EXCEPT !.cursorDir = FALSE, !.vscodeDir = FALSE]
               ELSE rmHost
  /\ UNCHANGED <<rmCheck, rmCalls, notRm>>

\* part_002 359-403: ExecUtils.execute(detailCommand) settles; a rejected
\* call is caught by the inner catch, and the tick ends.
RmDetailSettles ==
  /\ rmPc["tick"] = "detail"
  /\ rmHost.reach # "hang"
  /\ rmPc' = [rmPc EXCEPT !["tick"] = "done"]
  /\ UNCHANGED <<rmHost, rmCheck, rmOut, rmCalls, notRm>>

RmNext ==
  \/ \E k \in RmCallers : RmStart(k)
  \/ \E k \in RmCallers : RmProbeSettles(k)
  \/ \E yes \in BOOLEAN : RmConfirm(yes)
  \/ \E removed \in BOOLEAN : RmCleanupSettles(removed)
  \/ RmDetailSettles

(***************************************************************************)
(* Part VII: QuickStartService.quickStart (QuickStartService.ts 19-495).   *)
(* The repairs it calls are Parts II and III; here they are steps of the   *)
(* run, each with its outcome as an input.                                 *)
(***************************************************************************)
QsChecks ==
  [awsCli : BOOLEAN, sessionManagerPlugin : BOOLEAN, awsToolkit : BOOLEAN,
   sshConfig : BOOLEAN, remoteSSH : BOOLEAN]

QsQuiet ==
  /\ qsChecks = [awsCli |-> TRUE, sessionManagerPlugin |-> TRUE,
                 awsToolkit |-> TRUE, sshConfig |-> TRUE, remoteSSH |-> TRUE]
  /\ qsServer = FALSE /\ qsScript = FALSE
  /\ qsPc = "idle" /\ qsHalt = "none"
  /\ qsTrace = <<>> /\ qsLog = {} /\ qsKnown = FALSE
  /\ qsChanges = MaxQsChanges

QsInit ==
  /\ qsChecks \in QsChecks
  /\ qsServer \in BOOLEAN /\ qsScript \in BOOLEAN
  /\ qsPc = "idle" /\ qsHalt = "none"
  /\ qsTrace = <<>> /\ qsLog = {} /\ qsKnown = FALSE
  /\ qsChanges = 0

\* the run goes to the await named pc, having made the steps in made and
\* logged the failures in logged
QsGo(pc, made, logged) ==
  /\ qsPc' = pc
  /\ qsTrace' = qsTrace \o made
  /\ qsLog' = qsLog \cup logged
  /\ UNCHANGED <<qsChecks, qsServer, qsScript, qsHalt, qsKnown, qsChanges,
                 notQs>>

\* a return before the Next Steps text
QsHalts(why, made, logged) ==
  /\ qsPc' = "halted"
  /\ qsHalt' = why
  /\ qsTrace' = qsTrace \o made
  /\ qsLog' = qsLog \cup logged
  /\ UNCHANGED <<qsChecks, qsServer, qsScript, qsKnown, qsChanges, notQs>>

\* lines 116-147, entered from step 1: with no SSH config the input box is
\* shown, else the run is at step 3
QsToStep2(made) ==
  IF ~qsChecks.sshConfig
  THEN QsGo("arnPrompt", made, {})
  ELSE QsGo("fixes", made, {})

\* lines 72-115, after the plugin check
QsAfterPlugin(made, logged) ==
  IF ~qsChecks.remoteSSH
  THEN QsHalts("remoteSSH", made, logged)
  ELSE IF ~qsChecks.awsToolkit
  THEN QsGo("toolkitPrompt", made, logged)
  ELSE IF ~qsChecks.sshConfig
  THEN QsGo("arnPrompt", made, logged)
  ELSE QsGo("fixes", made, logged)

\* lines 35-52: checkAll has resolved
QsProbe ==
  /\ qsPc = "idle"
  /\ IF ~qsChecks.awsCli
     THEN QsHalts("awsCli", <<"probe">>, {})
     ELSE IF ~qsChecks.sessionManagerPlugin
     THEN QsGo("install", <<"probe">>, {})
     ELSE QsAfterPlugin(<<"probe">>, {})

\* lines 53-70: installSessionManagerPlugin settles; its failure is logged
QsInstallDone(ok) ==
  /\ qsPc = "install"
  /\ QsAfterPlugin(<<"install">>, IF ok THEN {} ELSE {"install"})

\* lines 92-111: the answer to "Install it now?"
QsToolkitAnswer(install) ==
  /\ qsPc = "toolkitPrompt"
  /\ IF install
     THEN QsHalts("toolkitInstall", <<>>, {})
     ELSE QsToStep2(<<>>)

\* lines 120-133: the input box for the space ARN
QsArnAnswer(given) ==
  /\ qsPc = "arnPrompt"
  /\ IF given
     THEN QsGo("setup", <<>>, {})
     ELSE QsHalts("noArn", <<>>, {})

\* lines 135-144: setupSSHConfig settles; its failure is logged and the
\* run returns (143)
QsSetupDone(ok) ==
  /\ qsPc = "setup"
  /\ IF ok
     THEN QsGo("fixes", <<"setup">>, {})
     ELSE QsHalts("setupThrew", <<"setup">>, {"setup"})

\* lines 149-180, steps 3 to 5: fixCodeWrapperInternal, fixPathInternal and
\* fixSSHConfigInternal, each in its own try; failed is the set of those
\* that threw
QsFixes(failed) ==
  /\ qsPc = "fixes"
  /\ QsGo("repair1", <<"fix">>, failed)

\* lines 182-237, steps 6 to 8 and the call of checkServerStatus of step 9
QsRepair1(ok) ==
  /\ qsPc = "repair1"
  /\ QsGo("status9", <<"repair1">>, IF ok THEN {} ELSE {"repair1"})

\* lines 237-246: checkServerStatus has resolved
QsStatus9 ==
  /\ qsPc = "status9"
  /\ IF qsServer
     THEN QsGo("status10", <<"server">>, {})
     ELSE QsGo("starting", <<"server">>, {"notRunning"})

\* lines 246-304: startServerInternal settles. It returns true only when
\* its own status check saw the server running (1123-1130). Without a
\* start the manual instructions and a dialog follow, and whatever the
\* answer the run returns (303).
QsStartDone(started) ==
  /\ qsPc = "starting"
  /\ IF started /\ qsServer
     THEN QsGo("recheck", <<>>, {})
     ELSE QsHalts("notStarted", <<>>, {"notStarted"})

\* lines 306-315: the status after the wait of five seconds
QsRecheck ==
  /\ qsPc = "recheck"
  /\ IF qsServer
     THEN QsGo("status10", <<>>, {})
     ELSE QsHalts("stillNotRunning", <<>>, {"stillNotRunning"})

\* lines 322-337, step 10
QsStatus10 ==
  /\ qsPc = "status10"
  /\ IF qsServer
     THEN QsGo("repair2", <<"verified">>, {})
     ELSE QsHalts("stoppedBetween", <<>>, {"stoppedBetween"})

\* lines 339-413, step 11: existsSync guards only the two warnings (348-
\* 369); fixArnConversionInternal is called after the if (370)
QsRepair2(ok) ==
  /\ qsPc = "repair2"
  /\ qsPc' = "step12"
  /\ qsKnown' = qsScript
  /\ qsTrace' = qsTrace \o <<"repair2">>
  /\ qsLog' = qsLog \cup (IF ok THEN {} ELSE {"repair2"})
  /\ UNCHANGED <<qsChecks, qsServer, qsScript, qsHalt, qsChanges, notQs>>

\* Mutant of QsStep12: the run goes on to "Quick Start Complete" without
\* the return of line 429.
QsStep12NoReturn ==
  /\ qsPc = "step12"
  /\ QsGo("guidance", <<"guidance">>, {})

\* lines 415-486, step 12, "Quick Start Complete!" (458) and the Next Steps
\* text
QsStep12 ==
  /\ qsPc = "step12"
  /\ IF qsScript
     THEN QsGo("guidance", <<"guidance">>, {})
     ELSE QsHalts("scriptMissing", <<>>, {"scriptMissing"})

\* The local server starts or stops (AWS Toolkit), while a run is on.
QsServerChange ==
  /\ qsPc \notin {"idle", "guidance", "halted"}
  /\ qsChanges < MaxQsChanges
  /\ qsChanges' = qsChanges + 1
  /\ qsServer' = ~qsServer
  /\ UNCHANGED <<qsChecks, qsScript, qsPc, qsHalt, qsTrace, qsLog, qsKnown,
                 notQs>>

\* AWS Toolkit writes the connection script, or it is deleted.
QsScriptChange ==
  /\ qsPc \notin {"idle", "guidance", "halted"}
  /\ qsChanges < MaxQsChanges
  /\ qsChanges' = qsChanges + 1
  /\ qsScript' = ~qsScript
  /\ UNCHANGED <<qsChecks, qsServer, qsPc, qsHalt, qsTrace, qsLog, qsKnown,
                 notQs>>

QsNext ==
  \/ QsProbe
  \/ \E ok \in BOOLEAN : QsInstallDone(ok)
  \/ \E install \in BOOLEAN : QsToolkitAnswer(install)
  \/ \E given \in BOOLEAN : QsArnAnswer(given)
  \/ \E ok \in BOOLEAN : QsSetupDone(ok)
  \/ \E failed \in SUBSET {"codeWrapper", "path", "sshConfig"} : QsFixes(failed)
  \/ \E ok \in BOOLEAN : QsRepair1(ok)
  \/ QsStatus9
  \/ \E started \in BOOLEAN : QsStartDone(started)
  \/ QsRecheck
  \/ QsStatus10
  \/ \E ok \in BOOLEAN : QsRepair2(ok)
  \/ QsStep12
  \/ QsServerChange
  \/ QsScriptChange

(***************************************************************************)
(* Part VIII: ServerManager.checkServerStatus (part_002 638-676) with      *)
(* ExecUtils.isProcessRunning and isPortAccessible (ExecUtils.ts 117-138). *)
(***************************************************************************)
StEnvs ==
  [file : {"absent", "garbage", "null", "empty", "noPid", "noPort", "full"},
   tasklist : {"row", "info", "reject"},
   netconn : {"True", "False", "reject"}]

READ_ERROR == "the message of the read or parse error"

StLocals ==
  [processRunning |-> FALSE, serverAccessible |-> FALSE, running |-> FALSE,
   accessible |-> "undefined", error |-> "undefined"]

HasPid(f) == f \in {"noPort", "full"}

HasPort(f) == f \in {"noPid", "full"}

\* ExecUtils.ts 117-124: stdout has the pid and not "INFO: No tasks"; a
\* command that fails gives false
isProcessRunning(out) == out = "row"

\* ExecUtils.ts 129-138: stdout has "True"; a command that fails gives false
isPortAccessible(out) == out = "True"

StQuiet ==
  /\ stEnv = [file |-> "absent", tasklist |-> "info", netconn |-> "False"]
  /\ stPc = "returned"
  /\ stStatus = [StLocals EXCEPT !.error = "Server info file not found"]

StInit ==
  /\ stEnv \in StEnvs
  /\ stPc = "idle"
  /\ stStatus = StLocals

\* Mutant of StReturn: running is the state of the process alone.
StReturnProcessOnly(pr, sa) ==
  /\ stPc' = "returned"
  /\ stStatus' = [processRunning |-> pr, serverAccessible |-> sa,
                  running |-> pr,
                  accessible |-> IF sa THEN "true" ELSE "false",
                  error |-> IF ~pr THEN "Process not running"
                            ELSE IF ~sa THEN "Server not accessible on port"
                            ELSE "undefined"]

\* part_002 659-670: the object returned from inside the if
StReturn(pr, sa) ==
  /\ stPc' = "returned"
  /\ stStatus' = [processRunning |-> pr, serverAccessible |-> sa,
                  running |-> pr /\ sa,
                  accessible |-> IF sa THEN "true" ELSE "false",
                  error |-> IF ~pr THEN "Process not running"
                            ELSE IF ~sa THEN "Server not accessible on port"
                            ELSE "undefined"]

\* part_002 672-676: the catch, and the return after the try
StReturnError(msg) ==
  /\ stPc' = "returned"
  /\ stStatus' = [stStatus EXCEPT !.running = FALSE, !.error = msg]

\* part_002 638-652: the call up to its first await, or to its return when
\* there is none. Reading "garbage" throws in readFileSync or JSON.parse,
\* and info.pid throws on null: both go to the catch.
CheckServerStatus ==
  /\ stPc = "idle"
  /\ UNCHANGED <<stEnv, notSt>>
  /\ IF stEnv.file = "absent"
     THEN StReturnError("Server info file not found")
     ELSE IF stEnv.file \in {"garbage", "null"}
     THEN StReturnError(READ_ERROR)
     ELSE IF HasPid(stEnv.file)
     THEN stPc' = "pid" /\ UNCHANGED stStatus
     ELSE IF HasPort(stEnv.file)
     THEN stPc' = "port" /\ UNCHANGED stStatus
     ELSE StReturn(FALSE, FALSE)

\* part_002 650-657: isProcessRunning has resolved
StProcessDone ==
  /\ stPc = "pid"
  /\ UNCHANGED <<stEnv, notSt>>
  /\ IF HasPort(stEnv.file)
     THEN /\ stPc' = "port"
          /\ stStatus' = [stStatus EXCEPT !.processRunning =
                            isProcessRunning(stEnv.tasklist)]
     ELSE StReturn(isProcessRunning(stEnv.tasklist), FALSE)

\* part_002 656-670: isPortAccessible has resolved
StPortDone ==
  /\ stPc = "port"
  /\ UNCHANGED <<stEnv, notSt>>
  /\ StReturn(stStatus.processRunning, isPortAccessible(stEnv.netconn))

StNext ==
  \/ CheckServerStatus
  \/ StProcessDone
  \/ StPortDone

vars == <<monVars, cfgVars, scrVars, preVars, exeVars, rmVars, qsVars, stVars>>

QuietTail == PreQuiet /\ ExeQuiet /\ RmQuiet /\ QsQuiet /\ StQuiet

Init == MonInit /\ CfgQuiet /\ ScrQuiet /\ QuietTail

MonNext(S, cap) ==
  \/ \E s \in S, h \in Hosts : StartMonitor(s, h)
  \/ \E s \in S : InitialCheckDone(s)
  \/ \E s \in S : TickStart(s, cap)
  \/ \E s \in S, i \in 1..MaxInflight : LocalProbeDone(s, i)
  \/ \E s \in S, i \in 1..MaxInflight : ProbeThrows(s, i)
  \/ \E s \in S, i \in 1..MaxInflight, res \in RemoteOutcomes : RemoteProbeDone(s, i, res)
  \/ \E s \in S, i \in 1..MaxInflight : TickFinish(s, i)
  \/ \E h \in Hosts : StopMonitoring(h)
  \/ StopAllMonitoring

\* The monitor, with MaxSessions calls of monitorRemoteServer.
Next == MonNext(Sessions, MaxTicks)

Spec == Init /\ [][Next]_vars

\* The monitor with one call, polling up to its timeout.
NextPoll == MonNext({1}, maxChecks + PollSlack)

SpecPoll == Init /\ [][NextPoll]_vars

\* The config repair on every document of CfgDocs.
InitConfig == MonInit /\ CfgInit /\ ScrQuiet /\ QuietTail

NextConfig == CfgNext

SpecConfig == InitConfig /\ [][NextConfig]_vars

\* The script repair on every script of ScriptDocs.
InitScript == MonInit /\ CfgQuiet /\ ScrInit /\ QuietTail

NextScript == ScrNext

SpecScript == InitScript /\ [][NextScript]_vars

\* checkPrerequisites in every environment of PreEnvs.
InitPrereq == MonInit /\ CfgQuiet /\ ScrQuiet /\ PreInit /\ ExeQuiet /\ RmQuiet /\ QsQuiet
  /\ StQuiet

NextPrereq == PreNext

SpecPrereq == InitPrereq /\ [][NextPrereq]_vars

\* ExecUtils.execute called by MaxCallers callers.
InitExec == MonInit /\ CfgQuiet /\ ScrQuiet /\ PreQuiet /\ ExeInit /\ RmQuiet /\ QsQuiet
  /\ StQuiet

NextExec == ExeNext

SpecExec == InitExec /\ [][NextExec]_vars

\* The remote probes alone.
InitRemote ==
  MonInit /\ CfgQuiet /\ ScrQuiet /\ PreQuiet /\ ExeQuiet /\ RmInit /\ QsQuiet
  /\ StQuiet

NextRemote == RmNext

SpecRemote == InitRemote /\ [][NextRemote]_vars

\* The same with the scheduling of the event loop: the callback of a child
\* process that has exited is run, so a promise whose process exited is
\* settled. Nothing obliges the user to start a call or to answer the
\* dialog.
RmSettles ==
  \/ \E k \in RmCallers : RmProbeSettles(k)
  \/ \E removed \in BOOLEAN : RmCleanupSettles(removed)
  \/ RmDetailSettles

SpecRemoteLive == SpecRemote /\ WF_vars(RmSettles)

\* One run of quickStart.
InitQuick ==
  MonInit /\ CfgQuiet /\ ScrQuiet /\ PreQuiet /\ ExeQuiet /\ RmQuiet /\ QsInit
  /\ StQuiet

NextQuick == QsNext

SpecQuick == InitQuick /\ [][NextQuick]_vars

\* One call of checkServerStatus in every environment of StEnvs.
InitStatus ==
  MonInit /\ CfgQuiet /\ ScrQuiet /\ PreQuiet /\ ExeQuiet /\ RmQuiet /\ QsQuiet
  /\ StInit

NextStatus == StNext

SpecStatus == InitStatus /\ [][NextStatus]_vars

(***************************************************************************)
(* Properties of the monitor.                                              *)
(***************************************************************************)
LiveSessions(h) == {s \in Sessions : host[s] = h /\ interval[s] = "live"}

\* C1: monitor exclusivity. After monitorRemoteServer calls for one host, in
\* any interleaving, at most one session of that host has a live timer.
C1_MonitorExclusivity ==
  \A h \in Hosts : Cardinality(LiveSessions(h)) <= 1

\* The session has had no running report and has not met a stop.
Unsuccessful(s) ==
  /\ nSucceeded[s] = 0
  /\ \A i \in 1..Len(ticks[s]) : ticks[s][i].res # "running"
  /\ ~stopped[s] /\ interval[s] # "cancelled"

\* C2: bounded termination. A session with no running report that is never
\* stopped starts no 61st tick, and has declared its timeout only with the
\* count at exactly maxChecks.
C2_BoundedTermination ==
  \A s \in Sessions : Unsuccessful(s) =>
     /\ checkCount[s] <= maxChecks
     /\ (nTimedOut[s] > 0 => checkCount[s] = maxChecks)

\* C3: ticks of one session never overlap: at most one tick of a session is
\* awaiting a probe.
C3_TicksNeverOverlap ==
  \A s \in Sessions : Len(ticks[s]) <= 1

\* C4: explicit stop halts polling. Once a stop for the host of a session whose
\* timer was running has returned, no further tick of that session begins.
C4_StopHaltsPolling ==
  [][\A s \in Sessions : stopped[s] => checkCount'[s] = checkCount[s]]_vars

\* C5: a tick in flight when its session is cancelled discards its results:
\* a step of a tick of a cancelled session emits no banner and leaves the
\* registry as it is.
C5_CancelledTickDiscards ==
  [][\A s \in Sessions :
       (interval[s] = "cancelled" /\ ticks'[s] # ticks[s]) =>
          /\ nSucceeded'[s] = nSucceeded[s]
          /\ nTimedOut'[s] = nTimedOut[s]
          /\ activeIntervals' = activeIntervals]_vars

\* C6: a stop issued while a monitorRemoteServer call for the host is awaiting
\* its initial check is not lost: that session never gets a running timer and
\* none of its ticks runs.
C6_StopDuringStartNotLost ==
  \A s \in Sessions : stopDuringStart[s] =>
     /\ interval[s] # "live"
     /\ checkCount[s] = 0

\* The step finishes tick i of session s (its detail command has returned).
Finishes(s, i) ==
  /\ i \in 1..Len(ticks[s])
  /\ ticks[s][i].pc = "detail"
  /\ ticks'[s] = RemoveAt(ticks[s], i)

\* C7: a tick whose remote probe reported a running process makes the session
\* Succeeded in that very tick (timer no longer live, registry entry removed,
\* one success banner, no timeout banner), also when it is the maxChecks-th
\* tick, and the success banner is emitted by no other step.
C7_SucceededIffReported ==
  [][\A s \in Sessions :
       /\ \A i \in 1..MaxInflight :
            (Finishes(s, i) /\ ticks[s][i].res = "running") =>
               /\ nSucceeded'[s] = nSucceeded[s] + 1
               /\ nTimedOut'[s] = nTimedOut[s]
               /\ isStopped'[s]
               /\ interval'[s] # "live"
               /\ activeIntervals'[host[s]] = NoSession
       /\ nSucceeded'[s] # nSucceeded[s] =>
            \E i \in 1..MaxInflight :
               Finishes(s, i) /\ ticks[s][i].res = "running"]_vars

\* C7 witness: a session succeeded on its maxChecks-th check.
C7_Witness ==
  \E s \in Sessions :
     nSucceeded[s] = 1 /\ nTimedOut[s] = 0 /\ checkCount[s] = maxChecks

\* C8: a failed probe or an exception in a tick never ends the polling: the
\* timer of a session stops, and isStopped is set, only by a success banner,
\* by a timeout banner emitted with the count at maxChecks or above, or by a
\* stop or replacement.
C8_FailureKeepsPolling ==
  [][\A s \in Sessions :
       /\ (interval[s] = "live" /\ interval'[s] # "live") =>
             \/ interval'[s] = "cancelled"
             \/ nSucceeded'[s] > nSucceeded[s]
             \/ nTimedOut'[s] > nTimedOut[s]
       /\ (isStopped'[s] # isStopped[s]) =>
             (nSucceeded'[s] > nSucceeded[s] \/ nTimedOut'[s] > nTimedOut[s])
       /\ nTimedOut'[s] > nTimedOut[s] => checkCount[s] >= maxChecks
       /\ nSucceeded'[s] > nSucceeded[s] =>
             \E i \in 1..MaxInflight : Finishes(s, i) /\ ticks[s][i].res = "running"]_vars

\* C8 witness: a session that met a failure is polling on, at a later check.
C8_Witness ==
  \E s \in Sessions :
     /\ sawFailure[s] /\ interval[s] = "live" /\ ~isStopped[s]
     /\ checkCount[s] >= 2
     /\ \E i \in 1..Len(ticks[s]) : ticks[s][i].pc = "local"

\* The sessions of host h that have created their timer.
StartedFor(h) == {s \in Sessions : callPc[s] = "done" /\ host[s] = h}

\* C29: registry consistency: an entry of activeIntervals for a host is the
\* live timer of the session started last for that host, and every session
\* with a live timer has its entry (so stopMonitoring(host) can stop it): a
\* terminal transition of a session removes its own entry only.
C29_RegistryConsistent ==
  /\ \A h \in Hosts :
       activeIntervals[h] # NoSession =>
         /\ interval[activeIntervals[h]] = "live"
         /\ host[activeIntervals[h]] = h
         /\ \A s \in StartedFor(h) : s <= activeIntervals[h]
  /\ \A s \in Sessions :
       interval[s] = "live" => activeIntervals[host[s]] = s

\* C30: each session produces at most one terminal outcome: it emits the
\* Succeeded banner or the TimedOut banner at most once and never both.
C30_OneTerminalOutcome ==
  \A s \in Sessions : nSucceeded[s] + nTimedOut[s] <= 1

(***************************************************************************)
(* Properties of the config repair.                                        *)
(***************************************************************************)
\* The step is a run of the repair op right after a run of the same repair
\* that fixed (and so produced) the config.
SecondRunOf(op) ==
  /\ cfgOp = op /\ cfgReport = "fixed"
  /\ cfgOp' = op /\ cfgRuns' = cfgRuns + 1

\* The block the repair works on has the header 'Host sagemaker' exactly.
ExactHeader(t) ==
  /\ IncludesHostSagemaker(t)
  /\ t[BlockStart(t) + 1] = "sagemaker"

\* C10: a second run of fixSSHConfig (or of fixSSHConfigInternal) on the
\* config the first run has just produced reports that no fix is needed,
\* leaves the file identical and creates no backup.
C10_ConfigRepairIdempotent ==
  [][\A op \in {"fixSSHConfig", "fixSSHConfigInternal"} :
       SecondRunOf(op) /\ ExactHeader(cfgFile) =>
         /\ cfgReport' = "good"
         /\ cfgFile' = cfgFile
         /\ cfgBackups' = cfgBackups]_vars

(***************************************************************************)
(* Properties of the script repair.                                        *)
(***************************************************************************)
\* The step is a run of the repair op right after a run of the same repair
\* that wrote (and so produced) the script.
SecondScriptRunOf(op) ==
  /\ scrOp = op /\ scrWrote
  /\ scrOp' = op /\ scrRuns' = scrRuns + 1

\* C9: a second run of a script repair (fixArnConversionInternal,
\* fixArnConversion, fixPowerShellDebugOutput) on the script the first run has
\* just produced is a no-op: it reports that everything is applied, does not
\* write the file, leaves it identical and creates no backup.
C9_ScriptRepairIdempotent ==
  [][\A op \in {"fixArnConversionInternal", "fixArnConversion",
                "fixPowerShellDebugOutput"} :
       SecondScriptRunOf(op) =>
         /\ scrReport' = "applied"
         /\ ~scrWrote'
         /\ scrFile' = scrFile
         /\ scrBackups' = scrBackups]_vars

\* C11: each rule's detection holds on the rule's own output: when a repair
\* has logged the ARN conversion, the retry loop or the debug suppression as
\* added and has written the script, the script holds the marker the same
\* repair looks for to tell that the rule is applied.
C11_MarkersInOwnOutput ==
  scrWrote =>
    /\ "arn" \in scrLog => Includes(scrFile, LinesOf.ArnMarker)
    /\ "retry" \in scrLog => Includes(scrFile, LinesOf.RetryMarker)
    /\ "debug" \in scrLog => Includes(scrFile, LinesOf.DebugMarker)

\* C12: backup invariant: a run of a script repair that writes changed
\* content has taken a backup in the same run, and the backup holds the text
\* the run read as its input.
C12_BackupHoldsInput ==
  [][scrRuns' = scrRuns + 1 /\ scrWrote' /\ scrFile' # scrFile =>
       /\ Len(scrBackups') = Len(scrBackups) + 1
       /\ scrBackups'[Len(scrBackups')] = scrFile]_vars

\* C13: a backup is created only if a rule was applied: a run of
\* fixArnConversionInternal or of FixService.fixArnConversion that leaves the
\* text of the script as it was creates no backup.
C13_BackupOnlyIfChanged ==
  [][/\ scrRuns' = scrRuns + 1
     /\ scrOp' \in {"fixArnConversionInternal", "fixArnConversion"}
     /\ scrFile' = scrFile
     => scrBackups' = scrBackups]_vars

\* Structural validity of a script: the braces are balanced and no marker
\* block is there twice.
OpensBrace ==
  {ScriptLine.if, ScriptLine.func, ScriptLine.try, ScriptLine.func2,
   ArnLine.if, RetryLine.for, RetryLine.try, DebugLine.func}

ClosesBrace ==
  {ScriptLine.brace, ScriptLine.close, ScriptLine.brace2, RetryLine.end_try,
   RetryLine.exit_joined}

RECURSIVE BraceDepth(_, _)
BraceDepth(sc, k) ==
  IF k = 0 THEN 0
  ELSE BraceDepth(sc, k - 1)
       + (IF sc[k] \in OpensBrace THEN 1 ELSE 0)
       - (IF sc[k] \in ClosesBrace THEN 1 ELSE 0)

Balanced(sc) ==
  /\ \A k \in 1..Len(sc) : BraceDepth(sc, k) >= 0
  /\ BraceDepth(sc, Len(sc)) = 0

Copies(sc, W) == Cardinality({i \in 1..Len(sc) : sc[i] \in W})

NoDuplicateBlock(sc) ==
  /\ Copies(sc, LinesOf.ArnMarker) <= 1
  /\ Copies(sc, LinesOf.RetryMarker) <= 1
  /\ Copies(sc, LinesOf.DebugMarker) <= 1

StructurallyValid(sc) == Balanced(sc) /\ NoDuplicateBlock(sc)

\* C14: a repair writes the script only after the structural validation of
\* the final text has passed: a run that starts from a structurally valid
\* script and writes leaves a structurally valid script.
C14_WriteOnlyIfValid ==
  [][scrRuns' = scrRuns + 1 /\ scrWrote' /\ StructurallyValid(scrFile) =>
       StructurallyValid(scrFile')]_vars

\* C15: a missing anchor is a skip, not a fix: a run of an ARN repair that
\* removed lines of an old retry loop has installed the new one, and a run
\* that logged no change (every rule found its anchor missing or had nothing
\* to do) does not report the script as updated.
C15_MissingAnchorIsSkip ==
  scrOp \in {"fixArnConversionInternal", "fixArnConversion"} =>
    /\ scrLog \cap {"removedOld", "removedLines"} # {} => "retry" \in scrLog
    /\ scrLog \subseteq {"warn"} => scrReport # "updated"

(***************************************************************************)
(* Further properties of the config repair.                                *)
(***************************************************************************)
\* The first header line 'Host sagemaker' with exactly that alias, 0 if none.
ExactStart(t) ==
  LET S == {p \in 1..Len(t) :
              /\ t[p] = "Host" /\ p + 2 <= Len(t)
              /\ t[p + 1] = "sagemaker" /\ t[p + 2] = NL
              /\ (p = 1 \/ t[p - 1] = NL)}
  IN IF S = {} THEN 0 ELSE MinOf(S)

\* The last token of the block that starts at header a: the token before the
\* next header line, or the last token of the document.
ExactEnd(t, a) ==
  LET S == {q \in (a + 1)..Len(t) : t[q] = "Host" /\ t[q - 1] = NL}
  IN IF S = {} THEN Len(t) ELSE MinOf(S) - 1

\* u differs from t inside the span a..b of t at most.
SameOutside(t, u, a, b) ==
  /\ Len(u) >= (a - 1) + (Len(t) - b)
  /\ SubSeq(u, 1, a - 1) = SubSeq(t, 1, a - 1)
  /\ SubSeq(u, Len(u) - (Len(t) - b) + 1, Len(u)) = SubSeq(t, b + 1, Len(t))

\* C16: the config repair touches only the sagemaker block: a run of
\* fixSSHConfig or of fixSSHConfigInternal changes nothing outside the block
\* whose header is exactly 'Host sagemaker' (nothing at all when the document
\* has no such block); every other block is the same afterward.
C16_OnlySagemakerBlock ==
  [][/\ cfgRuns' = cfgRuns + 1
     /\ cfgOp' \in {"fixSSHConfig", "fixSSHConfigInternal"}
     => IF ExactStart(cfgFile) = 0 THEN cfgFile' = cfgFile
        ELSE SameOutside(cfgFile, cfgFile', ExactStart(cfgFile),
                         ExactEnd(cfgFile, ExactStart(cfgFile)))]_vars

\* The step is a run of a config repair on a document whose sagemaker block
\* (header exactly 'Host sagemaker') holds %n, no %h and no
\* SAGEMAKER_LOCAL_SERVER_FILE_PATH.
PctNScenario(t) ==
  /\ ExactHeader(t)
  /\ Includes(HostSection(t), PctN)
  /\ ~Includes(HostSection(t), PctH)
  /\ ~Includes(HostSection(t), EnvVar)

\* the ProxyCommand of the block has the env pointer in front of its command
EnvInProxyCommand(sec) ==
  \E r \in 1..(Len(sec) - 1) : sec[r] \in ProxyCommand /\ sec[r + 1] \in EnvVar

\* C18: given a 'Host sagemaker' block with %n, no %h and no env pointer, a
\* run of fixSSHConfig or of fixSSHConfigInternal reports the config as fixed
\* (needsFix), appends a backup that holds the document as it was before the
\* write, and writes a document whose block has %h for every %n and the env
\* pointer in its ProxyCommand.
C18_PctNScenario ==
  [][/\ cfgRuns' = cfgRuns + 1
     /\ cfgOp' \in {"fixSSHConfig", "fixSSHConfigInternal"}
     /\ cfgExists /\ PctNScenario(cfgFile)
     => /\ cfgReport' = "fixed" /\ cfgWrote'
        /\ cfgBackups' = Append(cfgBackups, cfgFile)
        /\ ~Includes(HostSection(cfgFile'), PctN)
        /\ Copies(HostSection(cfgFile'), {"%h"})
             = Copies(HostSection(cfgFile), PctN)
        /\ EnvInProxyCommand(HostSection(cfgFile'))]_vars

\* a repair has just fixed a document of the scenario, which had %n twice
C18_Witness ==
  /\ cfgRuns = 1 /\ cfgReport = "fixed" /\ Len(cfgBackups) = 1
  /\ PctNScenario(cfgBackups[1])
  /\ Copies(HostSection(cfgBackups[1]), PctN) = 2
  /\ Copies(HostSection(cfgFile), {"%h"}) = 2
  /\ EnvInProxyCommand(HostSection(cfgFile))

(***************************************************************************)
(* Further properties of the script repair.                                *)
(***************************************************************************)
\* The script the first run of a behaviour read: the first backup, or the
\* script itself when the run took none (and so wrote nothing).
FirstInput == IF scrBackups = <<>> THEN scrFile ELSE scrBackups[1]

\* C17: given a script that holds the retry loop of an earlier version with
\* the count 50 and no debug suppression marker, an ARN repair followed by
\* fixPowerShellDebugOutput leaves a script with the retry marker, the retry
\* count 10 and the debug suppression marker; the two rules (retry loop,
\* debug suppression) are logged as applied and no warning is logged.
C17_LegacyRetryScenario ==
  [][/\ scrRuns = 1 /\ scrRuns' = 2
     /\ scrOp \in {"fixArnConversionInternal", "fixArnConversion"}
     /\ scrOp' = "fixPowerShellDebugOutput"
     /\ RetryCount(FirstInput) = 50
     /\ ~Includes(FirstInput, LinesOf.DebugMarker)
     => /\ Includes(scrFile', LinesOf.RetryMarker)
        /\ RetryCount(scrFile') = 10
        /\ Includes(scrFile', LinesOf.DebugMarker)
        /\ "retry" \in scrLog /\ "warn" \notin scrLog
        /\ "debug" \in scrLog']_vars

\* C19: skipping one script rule never disables a later one: when the script
\* has no ARN derivation line (the ARN rule finds no anchor) and a run of an
\* ARN repair replaces the try/catch by the retry loop, the run writes the
\* script with the loop in it, and the script holds the retry marker by
\* which the next run tells that the loop is installed.
C19_SkipKeepsLaterRule ==
  [][/\ scrRuns' = scrRuns + 1
     /\ scrOp' \in {"fixArnConversionInternal", "fixArnConversion"}
     /\ ~Includes(scrFile, LinesOf.ArnAssign \cup LinesOf.ArnMarker)
     /\ "retry" \in scrLog'
     => /\ scrWrote'
        /\ Includes(scrFile', {RetryLine.for})
        /\ Includes(scrFile', LinesOf.RetryMarker)]_vars

\* The line that closes the leading param(...) block of a script: the param
\* line itself when the block is on one line, the line of the closing
\* parenthesis when it is on several; 0 when the script has no param block.
ParamCloseAt(sc) ==
  IF Includes(sc, {ScriptLine.param})
  THEN After(sc, 0, {ScriptLine.param})
  ELSE IF Includes(sc, {ScriptLine.param_open})
  THEN After(sc, After(sc, 0, {ScriptLine.param_open}), {ScriptLine.param_close})
  ELSE 0

\* The number of lines in front of the first line that is neither blank nor
\* a comment (all the lines when there is none).
BeforeFirstStatement(sc) ==
  LET S == {i \in 1..Len(sc) : sc[i] \notin LinesOf.Blank \cup LinesOf.Comment}
  IN IF S = {} THEN Len(sc) ELSE MinOf(S) - 1

\* C20: the debug suppression block is inserted at the right position: a run
\* of fixPowerShellDebugOutput that adds the block puts its first line
\* immediately after the line that closes the leading param(...) block
\* (on one line or on several) when the script has one, and otherwise
\* before the first line that is not a comment.
C20_DebugBlockPosition ==
  [][/\ scrRuns' = scrRuns + 1
     /\ scrOp' = "fixPowerShellDebugOutput"
     /\ scrLog' = {"debug"}
     => After(scrFile', 0, LinesOf.DebugMarker)
          = (IF ParamCloseAt(scrFile) > 0 THEN ParamCloseAt(scrFile)
             ELSE BeforeFirstStatement(scrFile)) + 1]_vars

(***************************************************************************)
(* The two script fixers together.                                         *)
(***************************************************************************)
\* QuickStartService.ts 766-787: fixArnConversionInternal finds nothing left
\* to fix
InternalDone(sc) ==
  /\ Includes(sc, LinesOf.ArnMarker)
  /\ Includes(sc, LinesOf.RetryMarker)
  /\ ~Includes(sc, LinesOf.BadSyntax)
  /\ RetryCount(sc) = 10

\* QuickStartService.ts 1310-1322: fixArnConversion finds nothing left to fix
ServiceDone(sc) ==
  Includes(sc, LinesOf.ArnMarker) /\ Includes(sc, LinesOf.RetryMarker)

\* the script on disk after fixArnConversionInternal ran on the script sc
AfterInternal(sc) ==
  IF InternalDone(sc) THEN sc
  ELSE IF HasAMarker(InternalPatch(sc)) THEN InternalPatch(sc)
  ELSE sc

\* the script on disk after fixArnConversion ran on the script sc
AfterFixService(sc) ==
  IF ServiceDone(sc) THEN sc
  ELSE IF HasAMarker(FixServicePatch(sc)) THEN FixServicePatch(sc)
  ELSE sc

\* fixArnConversion and then fixArnConversionInternal have run on the
\* script as the toolkit writes it: each took its backup
ServiceThenInternal ==
  /\ scrRuns = 2
  /\ scrOp = "fixArnConversionInternal"
  /\ Len(scrBackups) = 2
  /\ scrBackups[1] = Regenerated
  /\ scrBackups[2] = AfterFixService(Regenerated)
  /\ scrBackups[2] # Regenerated

\* C35: on a freshly generated script, fixArnConversion followed by
\* fixArnConversionInternal leaves the script that the opposite order
\* leaves, and after both have run each finds nothing left to fix.
C35_FixersConfluent ==
  ServiceThenInternal =>
    /\ scrFile = AfterFixService(AfterInternal(Regenerated))
    /\ InternalDone(scrFile)
    /\ ServiceDone(scrFile)

(***************************************************************************)
(* The retry checks of DiagnosticsService.diagnoseConnection.              *)
(***************************************************************************)
\* the lines with "$maxRetries" and the lines with "Attempt" on them
DiagLines ==
  [ MaxRetriesVar |-> {RetryLine.max10, RetryLine.max20, RetryLine.max50,
                       RetryLine.for, RetryLine.attempt_brace,
                       RetryLine.attempt, RetryLine.failed},
    Attempt |-> {RetryLine.attempt_brace, RetryLine.attempt} ]

\* DiagnosticsService.ts 151-164, step 9: "Retry logic fix is applied"
DiagRetryApplied(sc) == Includes(sc, LinesOf.RetryMarker)

\* DiagnosticsService.ts 284-298: "proper" (proper retry logic), "low" (low
\* retry count, should be 50, run Fix ARN Conversion), "silent" (no count
\* found, nothing written), "missing" (may be missing retry logic)
DiagRetryCount(sc) ==
  IF Includes(sc, DiagLines.MaxRetriesVar) /\ Includes(sc, DiagLines.Attempt)
  THEN IF RetryCount(sc) >= 50 THEN "proper"
       ELSE IF RetryCount(sc) > 0 THEN "low"
       ELSE "silent"
  ELSE "missing"

\* the diagnosis tells the user to run the fix
DiagRecommendsFix(sc) == ~DiagRetryApplied(sc) \/ DiagRetryCount(sc) = "low"

\* C36: when fixArnConversionInternal treats the script as fully fixed, the
\* diagnosis reports the retry logic as applied with a proper retry count
\* and does not recommend the fix; and a script in which a fixer has just
\* installed its retry loop is reported as having the retry fix applied.
C36_CheckersAgree ==
  scrExists =>
    /\ InternalDone(scrFile) =>
         /\ DiagRetryApplied(scrFile)
         /\ DiagRetryCount(scrFile) = "proper"
         /\ ~DiagRecommendsFix(scrFile)
    /\ (scrWrote /\ "retry" \in scrLog) => DiagRetryApplied(scrFile)

(***************************************************************************)
(* Properties of checkPrerequisites.                                       *)
(***************************************************************************)
\* C21: allPassed of the report is true if and only if errors is empty and
\* the remoteSSH and sshConfig flags are true; it is false whenever the
\* config file is missing or has no 'Host sagemaker' text, and when it is
\* true the AWS CLI and the Session Manager plugin were found.
C21_AllPassedIff ==
  prePc = "returned" =>
    /\ preReport.allPassed <=>
         /\ Len(preReport.errors) = 0
         /\ preReport.remoteSSH /\ preReport.sshConfig
    /\ (preEnv.configFile = "absent" \/ ~IncludesHostSagemaker(preEnv.configText))
         => ~preReport.allPassed
    /\ preReport.allPassed =>
         /\ preReport.awsCli /\ preEnv.awsCli
         /\ preReport.sessionManagerPlugin
         /\ (preEnv.pluginFile \/ preEnv.pluginCmd)

\* a report with allPassed, and the plugin found by its version command only
C21_Witness ==
  /\ prePc = "returned"
  /\ preReport.allPassed /\ ~preEnv.pluginFile

\* C22: the prerequisite checks are failure-isolated: a call never ends by
\* throwing, whatever single check fails (the config file that exists and
\* cannot be read included); and with the CLI absent, the host alias present
\* and the other tools present the report has sshConfig = true and exactly
\* one entry in errors.
C22_FailureIsolated ==
  /\ prePc # "threw"
  /\ (/\ prePc = "returned"
      /\ ~preEnv.awsCli
      /\ (preEnv.pluginFile \/ preEnv.pluginCmd) /\ preEnv.remoteSSH
      /\ preEnv.configFile # "absent" /\ IncludesHostSagemaker(preEnv.configText))
     => preReport.sshConfig /\ Len(preReport.errors) = 1

(***************************************************************************)
(* Properties of ExecUtils.                                                *)
(***************************************************************************)
\* C23: the process runner never throws on a non-zero exit: a call of
\* ExecUtils.execute whose command exits with a non-zero status returns a
\* result, it does not end by throwing.
C23_NeverThrows ==
  \A c \in Callers : exPc[c] # "threw"

\* Caller c starts a call of execute with an ssh command in this step.
StartsSSH(c) ==
  /\ exCalls' = exCalls + 1
  /\ exPc[c] \in {"idle", "returned", "threw"}
  /\ exPc'[c] \in {"run", "where"}
  /\ exKind'[c] = "ssh"

\* C27: SSH binary resolution. A call made once a value has been resolved
\* gets that same value, whatever has happened on disk since. Before that, a
\* call gets the first of the well-known install paths that exists, in the
\* listed order; only if none exists it looks ssh up in PATH, and it gets
\* plain "ssh" if the lookup fails and the path found if it finds one.
C27_SSHPathResolution ==
  [][\A c \in Callers :
       /\ StartsSSH(c) =>
            IF exFirst # "null" THEN exPath'[c] = exFirst
            ELSE IF fsPaths # {} THEN exPath'[c] = FirstExisting(fsPaths)
            ELSE exPc'[c] = "where"
       /\ (exPc[c] = "where" /\ exPc'[c] = "run") =>
            /\ whereOut \in {"error", "notfound"} => exPath'[c] = "ssh"
            /\ whereOut = "one" => exPath'[c] = WHERE_HIT]_vars

\* C34: execute starts the given command at most once in a call: no call
\* is ever awaiting a second execution of its command.
C34_StartedAtMostOnce ==
  \A c \in Callers : exPc[c] # "rerun"

(***************************************************************************)
(* Properties of the remote probes.                                        *)
(***************************************************************************)

\* C25: a caller reports the clean state ("nothing to clean up", "No
\* partial installation detected (clean state)") only when the probe ran on
\* the host and found neither a server directory nor a server process,
\* never when checkRemoteServerInstallation could not reach the host.
C25_CleanOnlyWhenProbed ==
  \A k \in {"cleanup", "diagnose"} :
    rmOut[k] = "clean" =>
      /\ rmCheck[k].details = NO_INSTALL
      /\ rmHost.reach = "ok"
      /\ ~rmHost.proc

RmAwaiting == {"probe", "rm", "detail"}

\* C28: every remote call a caller awaits is eventually over for the
\* caller, whatever the remote command does.
C28_RemoteCallEnds ==
  \A k \in RmCallers : \A p \in RmAwaiting :
    (rmPc[k] = p) ~> (rmPc[k] # p)

(***************************************************************************)
(* Properties of quickStart.                                               *)
(***************************************************************************)
\* the reasons for which a run may return before the Next Steps text: a
\* required tool or extension is absent, or the user cancelled or declined
QsMayHalt == {"awsCli", "remoteSSH", "toolkitInstall", "noArn"}

\* C24: quickStart returns before its final guidance only when a required
\* tool or extension is absent or the user cancelled or declined a prompt;
\* every other failure of a step is logged and the run goes on.
C24_HaltsOnlyWhenRequired ==
  qsPc = "halted" => qsHalt \in QsMayHalt

\* the place of a step in the order: probe, plugin install, SSH config
\* setup or fix, first script repair, server check or start (and its
\* verification), second script repair, guidance
StepRank(e) ==
  CASE e = "probe" -> 1
    [] e = "install" -> 2
    [] e \in {"setup", "fix"} -> 3
    [] e = "repair1" -> 4
    [] e \in {"server", "verified"} -> 5
    [] e = "repair2" -> 6
    [] e = "guidance" -> 7

InOrder(t) ==
  /\ \A i, j \in 1..Len(t) : i < j => StepRank(t[i]) <= StepRank(t[j])
  /\ \A e \in {"probe", "fix", "repair1", "server", "verified", "repair2",
               "guidance"} :
       Cardinality({i \in 1..Len(t) : t[i] = e}) = 1
  /\ \A i, j \in 1..Len(t) : t[i] = "server" /\ t[j] = "verified" => i < j

\* C26: a run that reaches the final guidance made its steps in the order
\* probe, plugin install (if any), SSH config setup or fix, first script
\* repair, server check or start, second script repair, guidance; and the
\* second script repair ran after the server was verified running and with
\* the connection script known to exist.
C26_StepOrder ==
  qsPc = "guidance" => InOrder(qsTrace) /\ qsKnown

\* C32: checkRemoteServerInstallation returns serverProcessRunning = true
\* only if a cursor-server or vscode-server process runs on the host; when
\* the SSH command succeeds and there is none it returns false.
C32_RunningOnlyWhenProcess ==
  \A k \in RmCallers :
    rmCheck[k].serverProcessRunning => rmHost.proc

(***************************************************************************)
(* Further properties of the monitor.                                      *)
(***************************************************************************)
\* a step that starts, stops or ends a session of host h
ActsOn(h) ==
  \/ \E s \in Sessions : StartMonitor(s, h)
  \/ \E s \in Sessions : host[s] = h /\ InitialCheckDone(s)
  \/ \E s \in Sessions, i \in 1..MaxInflight : host[s] = h /\ TickFinish(s, i)
  \/ StopMonitoring(h)

\* the timer, the registry entry and the tick count of session s are as before
SessionUntouched(s) ==
  /\ interval'[s] = interval[s]
  /\ checkCount'[s] = checkCount[s]
  /\ activeIntervals[host[s]] = s => activeIntervals'[host[s]] = s

\* C31: starting, stopping (stopMonitoring) or ending the session of a host
\* never clears the timer, removes the registry entry or changes the tick
\* count of a session of a different host.
C31_HostsIndependent ==
  [][\A h \in Hosts :
       ActsOn(h) =>
         \A s \in Sessions :
           (callPc[s] # "idle" /\ host[s] # h) => SessionUntouched(s)]_vars

\* a session of one host was stopped while the session of the other host
\* polls on, registered
C31_Witness ==
  \E s, r \in Sessions :
    /\ host[s] # host[r]
    /\ stopped[s] /\ interval[s] = "cancelled"
    /\ interval[r] = "live" /\ activeIntervals[host[r]] = r
    /\ checkCount[r] > 0

(***************************************************************************)
(* Properties of checkServerStatus.                                        *)
(***************************************************************************)
StErrors ==
  {"Server info file not found", "Process not running",
   "Server not accessible on port", READ_ERROR}

\* C33: checkServerStatus never throws, and what it returns is consistent:
\* running exactly when the descriptor was read and parsed, the process of
\* its pid runs and its port is accessible; running implies accessible and
\* no error; not running implies one of the four errors.
C33_StatusConsistent ==
  /\ stPc # "threw"
  /\ stPc = "returned" =>
       /\ stStatus.running <=>
            /\ HasPid(stEnv.file) /\ HasPort(stEnv.file)
            /\ stEnv.tasklist = "row"
            /\ stEnv.netconn = "True"
       /\ stStatus.running =>
            stStatus.accessible = "true" /\ stStatus.error = "undefined"
       /\ ~stStatus.running => stStatus.error \in StErrors

\* a call went through both probes and returned running
C33_Witness ==
  /\ stPc = "returned"
  /\ stStatus.running /\ stStatus.processRunning


(***************************************************************************)
(* Properties of setupSSHConfig.                                           *)
(***************************************************************************)
\* the places of the text "Host sagemaker" in the text t
HostSagemakerPlaces(t) == {p \in 1..Len(t) : HostSagemakerAt(t, p)}

\* the word at place p is the first of its line
AtLineStart(t, p) == p = 1 \/ t[p - 1] = NL

\* what setupSSHConfig reads: the text of the file, "" when there is none
ConfigContent == IF cfgExists THEN cfgFile ELSE <<>>

\* C37: setupSSHConfig does not write a config that contains
\* 'Host sagemaker'; otherwise the new content begins with the previous
\* content unchanged and has, after it, a 'Host sagemaker' header that is
\* the first word of its line; and a config with at most one
\* 'Host sagemaker' has exactly one after the call.
C37_SetupAppendOnly ==
  [][SetupSSHConfig =>
       /\ IncludesHostSagemaker(ConfigContent) =>
            ~cfgWrote' /\ cfgFile' = cfgFile /\ cfgExists' = cfgExists
       /\ ~IncludesHostSagemaker(ConfigContent) =>
            /\ cfgWrote' /\ cfgExists'
            /\ SubSeq(cfgFile', 1, Len(ConfigContent)) = ConfigContent
            /\ \E p \in HostSagemakerPlaces(cfgFile') :
                 p > Len(ConfigContent) /\ AtLineStart(cfgFile', p)
       /\ Cardinality(HostSagemakerPlaces(ConfigContent)) <= 1 =>
            Cardinality(HostSagemakerPlaces(cfgFile')) = 1]_vars

(***************************************************************************)
(* Further properties of quickStart.                                       *)
(***************************************************************************)
\* the run whose steps are tr has made the step e
Made(tr, e) == \E i \in 1..Len(tr) : tr[i] = e

\* the run whose steps are tr has made nothing but the second script repair
\* since the verification of step 10: no later check of the server status
VerifiedLast(tr) ==
  \E i \in 1..Len(tr) :
    /\ tr[i] = "verified"
    /\ \A j \in (i + 1)..Len(tr) : tr[j] = "repair2"

\* a step that logs the verification of step 10 is the status check of
\* step 10 and sees the server running and accessible
VerifiesOnlyWhenUp ==
  (Made(qsTrace', "verified") /\ ~Made(qsTrace, "verified"))
    => (qsPc = "status10" /\ qsServer)

\* a step that logs "Quick Start Complete" is step 12 with the script
\* found, and no status check followed the one of step 10
CompletesOnlyWhenFound ==
  (Made(qsTrace', "guidance") /\ ~Made(qsTrace, "guidance"))
    => (qsPc = "step12" /\ qsScript /\ VerifiedLast(qsTrace))

\* C38: quickStart logs "Quick Start Complete" only in step 12 with the
\* connection script found there, after a last server status check (the
\* one of step 10) that saw the server running and accessible; and a run
\* that returned early has not logged it.
C38_CompleteOnlyWhenVerified ==
  /\ [](qsPc = "halted" => ~Made(qsTrace, "guidance"))
  /\ [][VerifiesOnlyWhenUp /\ CompletesOnlyWhenFound]_vars

\* a run that found the server down at step 9, had it started and logged
\* "Quick Start Complete"
C38_Witness ==
  /\ qsPc = "guidance" /\ Made(qsTrace, "guidance")
  /\ "notRunning" \in qsLog

======================================================================
